---- MODULE Spec2Model ----
(***************************************************************************)
(* A model of the PSL parser of tools/internal/parser: the Source range    *)
(* (file.go), the recursive-descent grammar functions (parser.go) and the  *)
(* diagnostics they raise.                                                 *)
(*                                                                         *)
(* Lines are TLA+ strings; the string helpers below compute what the Go    *)
(* strings package computes.  A Source is a record [lines, lineOffset].    *)
(* A parser is a record [lines, lineOffset, blocks, errs, stack, panic];   *)
(* panic = "" while the parse runs and holds the panic message once a      *)
(* panic(...) statement or an out-of-range slice has been reached (the     *)
(* parser never recovers, so everything after it is skipped).              *)
(*                                                                         *)
(* Six specifications share the variables:                                 *)
(*   Spec           the program: Parse on a byte sequence;                 *)
(*   SpecHandlers   the grammar functions, each called on its own;         *)
(*   SpecSource     takeN, takeWhile, takeWhileNot and append on Sources   *)
(*                  that are Go slices over shared arrays;                 *)
(*   SpecNormalize  normalizeToUTF8Lines on a decoded text;                *)
(*   SpecGuess      guessUTFVariant on a byte sequence;                    *)
(*   SpecEncoding   normalizeToUTF8Lines on a byte sequence.               *)
(***************************************************************************)
EXTENDS Naturals, Sequences, FiniteSets, TLC

VARIABLES input, frame, p, call

vars == <<input, frame, p, call>>

\* Longest input (in lines) the model enumerates.
MaxLines == 3

\* Most ranges taken from the input, and most arrays allocated, in a run of
\* Source operations.
MaxHeld == 2

MaxArrays == 4

\* Longest decoded text (in characters) the model normalizes.
MaxChars == 3

\* Most two-byte characters in one run of the inputs of guessUTFVariant.
MaxPairs == 21

\* Most characters in a message given to normalizeToUTF8Lines as bytes.
MaxMessage == 21

(***************************************************************************)
(* Go strings package, as used by the parser.                              *)
(***************************************************************************)
HasPrefix(s, pre) ==
    Len(s) >= Len(pre) /\ SubSeq(s, 1, Len(pre)) = pre

HasSuffix(s, suf) ==
    Len(s) >= Len(suf) /\ SubSeq(s, Len(s) - Len(suf) + 1, Len(s)) = suf

TrimPrefix(s, pre) ==
    IF HasPrefix(s, pre) THEN SubSeq(s, Len(pre) + 1, Len(s)) ELSE s

\* strings.CutSuffix: (s without suf, TRUE) or (s, FALSE).
CutSuffix(s, suf) ==
    IF HasSuffix(s, suf)
    THEN [rest |-> SubSeq(s, 1, Len(s) - Len(suf)), ok |-> TRUE]
    ELSE [rest |-> s, ok |-> FALSE]

\* strings.Index for a one-character separator; 0 when absent.
Index(s, c) ==
    LET I == {i \in 1..Len(s) : SubSeq(s, i, i) = c}
    IN IF I = {} THEN 0 ELSE CHOOSE i \in I : \A j \in I : i <= j

\* strings.Cut: split around the first separator.
Cut(s, c) ==
    LET i == Index(s, c)
    IN IF i = 0
       THEN [before |-> s, after |-> "", found |-> FALSE]
       ELSE [before |-> SubSeq(s, 1, i - 1),
             after |-> SubSeq(s, i + 1, Len(s)),
             found |-> TRUE]

\* strings.Split for a one-character separator.
RECURSIVE Split(_, _)
Split(s, c) ==
    LET k == Cut(s, c)
    IN IF k.found THEN <<k.before>> \o Split(k.after, c) ELSE <<s>>

\* slices.Equal
SlicesEqual(a, b) == a = b

\* slice.Tail(l, n): the last n elements of l (all of l when it is shorter).
SliceTail(l, n) ==
    IF n >= Len(l) THEN l ELSE SubSeq(l, Len(l) - n + 1, Len(l))

(***************************************************************************)
(* file.go: Source                                                         *)
(***************************************************************************)
Source(lines, lineOffset) == [lines |-> lines, lineOffset |-> lineOffset]

NoSource == Source(<<>>, 0)

RECURSIVE JoinLines(_)
JoinLines(ls) ==
    IF Len(ls) = 0 THEN ""
    ELSE IF Len(ls) = 1 THEN ls[1]
    ELSE ls[1] \o "\n" \o JoinLines(Tail(ls))

Text(s) == IF Len(s.lines) = 1 THEN s.lines[1] ELSE JoinLines(s.lines)

NumLines(s) == Len(s.lines)

empty(s) == Len(s.lines) = 0

\* slice panics on an out-of-range interval; SliceOk is its guard.
SliceOk(s, startLine, endLine) ==
    ~(startLine < 0 \/ startLine > Len(s.lines)
      \/ endLine < startLine \/ endLine > Len(s.lines))

slice(s, startLine, endLine) ==
    Source(SubSeq(s.lines, startLine + 1, endLine), s.lineOffset + startLine)

first(s) == slice(s, 0, 1)

\* takeN: the n lines taken and the range left behind.
takeN(s, n) ==
    [taken |-> Source(SubSeq(s.lines, 1, n), s.lineOffset),
     rest |-> Source(SubSeq(s.lines, n + 1, Len(s.lines)), s.lineOffset + n)]

takeOne(s) == takeN(s, 1)

\* takeWhile that takes the first line failing fn as well.
takeWhileThroughFailing(s, fn) ==
    LET I == {i \in 1..Len(s.lines) : ~fn[s.lines[i]]}
    IN IF I = {} THEN takeN(s, Len(s.lines))
       ELSE takeN(s, CHOOSE i \in I : \A j \in I : i <= j)

\* takeWhile: index of the first line failing fn, else everything.  A
\* predicate on lines is passed as a function on strings.
takeWhile(s, fn) ==
    LET I == {i \in 1..Len(s.lines) : ~fn[s.lines[i]]}
    IN IF I = {} THEN takeN(s, Len(s.lines))
       ELSE takeN(s, (CHOOSE i \in I : \A j \in I : i <= j) - 1)

takeWhileNot(s, fn) ==
    takeWhile(s, [l \in STRING |-> ~fn[l]])

\* The guard of append taking s for a single line.
AppendOkOneLine(s, o) == s.lineOffset + 1 = o.lineOffset

\* append panics unless o directly follows s; AppendOk is its guard.
AppendOk(s, o) == s.lineOffset + NumLines(s) = o.lineOffset

append(s, o) == Source(s.lines \o o.lines, s.lineOffset)

(***************************************************************************)
(* file.go: guessUTFVariant.  A byte is a number in 0..255, bs a sequence  *)
(* of bytes; offsets count from 0 as in the source.                        *)
(***************************************************************************)
checkLimit == 200

decisionThreshold == 20

utf16Threshold == 15

\* The guess once enough zeros are counted, passing at the threshold itself.
guessDecideAtLeast(evenZeros, oddZeros) ==
    IF evenZeros >= utf16Threshold THEN "UTF-16BE"
    ELSE IF oddZeros >= utf16Threshold THEN "UTF-16LE"
    ELSE "UTF-8"

\* The guess once decisionThreshold zeros are counted.
guessDecide(evenZeros, oddZeros) ==
    IF evenZeros > utf16Threshold THEN "UTF-16BE"
    ELSE IF oddZeros > utf16Threshold THEN "UTF-16LE"
    ELSE "UTF-8"

\* The offset of the first zero byte of bs at or after offset i, Len(bs)
\* when there is none: the bytes the loop passes over with continue.
nextZero(bs, i) ==
    LET Z == {j \in i..(Len(bs) - 1) : bs[j + 1] = 0}
    IN IF Z = {} THEN Len(bs) ELSE CHOOSE j \in Z : \A k \in Z : j <= k

\* The loop of guessUTFVariant with the zero byte at offset i next (the loop
\* is over when i is Len(bs)).
RECURSIVE guessScan(_, _, _, _)
guessScan(bs, i, evenZeros, oddZeros) ==
    IF i >= Len(bs) THEN "UTF-8"
    ELSE IF i % 2 = 0
    THEN IF evenZeros + 1 + oddZeros < decisionThreshold
         THEN guessScan(bs, nextZero(bs, i + 1), evenZeros + 1, oddZeros)
         ELSE guessDecide(evenZeros + 1, oddZeros)
    ELSE IF evenZeros + oddZeros + 1 < decisionThreshold
         THEN guessScan(bs, nextZero(bs, i + 1), evenZeros, oddZeros + 1)
         ELSE guessDecide(evenZeros, oddZeros + 1)

guessUTFVariant(bs) ==
    IF Len(bs) > checkLimit
    THEN guessScan(SubSeq(bs, 1, checkLimit),
                   nextZero(SubSeq(bs, 1, checkLimit), 0), 0, 0)
    ELSE guessScan(bs, nextZero(bs, 0), 0, 0)

(***************************************************************************)
(* file.go: Source in memory.  The lines of a Source are a Go slice: a     *)
(* window of len elements starting at off on an array of the heap, which   *)
(* the slice may grow into up to cap elements.  Sources cut from the same  *)
(* input are windows on the same array.  A memory is a record [heap, rem,  *)
(* held, panic]: the arrays, the range takeN is called on (the parser's    *)
(* unconsumed input), the ranges handed out so far, and the panic message. *)
(***************************************************************************)
SourceAt(arr, off, len, cap, lineOffset) ==
    [arr |-> arr, off |-> off, len |-> len, cap |-> cap, lineOffset |-> lineOffset]

\* The Source a window denotes: its lines as the heap has them.
SourceOf(heap, w) == Source(SubSeq(heap[w.arr], w.off + 1, w.off + w.len), w.lineOffset)

\* takeN on rem: s.lines[:n] keeps the capacity of s.lines, s.lines[n:]
\* panics when n is past the length.
memTakeN(m, n) ==
    IF n > m.rem.len
    THEN [m EXCEPT !.panic = "slice bounds out of range"]
    ELSE [m EXCEPT
            !.held = Append(@, SourceAt(m.rem.arr, m.rem.off, n, m.rem.cap,
                                        m.rem.lineOffset)),
            !.rem = SourceAt(m.rem.arr, m.rem.off + n, m.rem.len - n,
                             m.rem.cap - n, m.rem.lineOffset + n)]

\* takeWhile on rem: takeN of the number of lines found to satisfy fn.
memTakeWhile(m, fn) ==
    memTakeN(m, NumLines(takeWhile(SourceOf(m.heap, m.rem), fn).taken))

memTakeWhileNot(m, fn) ==
    memTakeWhile(m, [l \in STRING |-> ~fn[l]])

\* append written as s.lines = append(s.lines, o.lines...): the lines of o
\* are stored into the array of s while its capacity lasts.
memAppendInPlace(m, i, o) ==
    LET w == m.held[i]
        s == SourceOf(m.heap, w)
        t == SourceOf(m.heap, o)
    IN IF ~AppendOk(s, t)
       THEN [m EXCEPT !.panic = "invalid append of non-adjacent Sources"]
       ELSE IF w.len + o.len <= w.cap
       THEN [m EXCEPT
               !.heap[w.arr] = [k \in 1..Len(@) |->
                                  IF k > w.off + w.len /\ k <= w.off + w.len + o.len
                                  THEN t.lines[k - w.off - w.len] ELSE @[k]],
               !.held[i] = SourceAt(w.arr, w.off, w.len + o.len, w.cap, w.lineOffset)]
       ELSE [m EXCEPT
               !.heap = Append(@, append(s, t).lines),
               !.held[i] = SourceAt(Len(m.heap) + 1, 0, w.len + o.len,
                                    w.len + o.len, w.lineOffset)]

\* held[i].append(o): the lines of both are copied into a new array.
memAppend(m, i, o) ==
    LET w == m.held[i]
        s == SourceOf(m.heap, w)
        t == SourceOf(m.heap, o)
    IN IF ~AppendOk(s, t)
       THEN [m EXCEPT !.panic = "invalid append of non-adjacent Sources"]
       ELSE [m EXCEPT
               !.heap = Append(@, append(s, t).lines),
               !.held[i] = SourceAt(Len(m.heap) + 1, 0, w.len + o.len,
                                    w.len + o.len, w.lineOffset)]

(***************************************************************************)
(* file.go: the block tree.  Every block is one record shape; the fields   *)
(* a kind does not have stay at their zero value.                          *)
(***************************************************************************)
Block(kind, src, name, blocks, suffix, wildcard, exceptions) ==
    [kind |-> kind, src |-> src, name |-> name, blocks |-> blocks,
     suffix |-> suffix, wildcard |-> wildcard, exceptions |-> exceptions]

BlankLines(src) == Block("BlankLines", src, "", <<>>, <<>>, FALSE, <<>>)

InvalidSource(src) == Block("InvalidSource", src, "", <<>>, <<>>, FALSE, <<>>)

Comment(src) == Block("Comment", src, "", <<>>, <<>>, FALSE, <<>>)

Section(src, name, blocks) == Block("Section", src, name, blocks, <<>>, FALSE, <<>>)

Group(src, name, blocks) == Block("Group", src, name, blocks, <<>>, FALSE, <<>>)

Suffixes(src, blocks) == Block("Suffixes", src, "", blocks, <<>>, FALSE, <<>>)

Suffix(src, labels, wildcard, exceptions) ==
    Block("Suffix", src, "", <<>>, labels, wildcard, exceptions)

\* IsDirectChildOf without the test of the length: any descendant passes.
IsDirectChildOfAnyLength(l, parent) ==
    SlicesEqual(SliceTail(l, Len(parent)), parent)

\* IsDirectChildOf comparing the leading labels instead of the trailing ones.
IsDirectChildOfHead(l, parent) ==
    IF Len(l) # Len(parent) + 1 THEN FALSE
    ELSE SlicesEqual(SubSeq(l, 1, Len(parent)), parent)

\* DNSLabels.IsDirectChildOf
IsDirectChildOf(l, parent) ==
    IF Len(l) # Len(parent) + 1 THEN FALSE
    ELSE SlicesEqual(SliceTail(l, Len(parent)), parent)

(***************************************************************************)
(* The diagnostics.  src is the Source the error carries, name the marker  *)
(* or end name, open the section or group the error points at.             *)
(***************************************************************************)
Open(name, src) == [name |-> name, src |-> src]

NoOpen == Open("", NoSource)

Err(kind, src, name, open) ==
    [kind |-> kind, src |-> src, name |-> name, open |-> open]

(***************************************************************************)
(* file.go: normalizeToUTF8Lines from the decoded text on.  A character is *)
(* a string of length one.                                                 *)
(***************************************************************************)

\* utf8.RuneError, the replacement character U+FFFD.
RuneError == "�"

\* The white space characters that have no escape: U+000B (vertical tab),
\* U+0085 (next line), U+00A0 (no-break space) and U+1680 (ogham space
\* mark).  Each string holds that one character.
VTChar == ""

NELChar == ""

NBSPChar == " "

OghamChar == " "

\* The white space characters a string cannot hold (U+2000 to U+200A,
\* U+2028, U+2029, U+202F, U+205F and U+3000) are all written SpaceChar, a
\* private-use character (U+F8FF) that stands for nothing else.
SpaceChar == ""

\* unicode.IsSpace
IsSpace(c) ==
    c \in {"\t", "\n", VTChar, "\f", "\r", " ", NELChar, NBSPChar, OghamChar,
           SpaceChar}

ContainsRune(s, c) == \E i \in 1..Len(s) : SubSeq(s, i, i) = c

\* strings.TrimRightFunc(s, unicode.IsSpace)
RECURSIVE TrimRightSpace(_)
TrimRightSpace(s) ==
    IF Len(s) > 0 /\ IsSpace(SubSeq(s, Len(s), Len(s)))
    THEN TrimRightSpace(SubSeq(s, 1, Len(s) - 1))
    ELSE s

\* strings.TrimLeftFunc(s, unicode.IsSpace)
RECURSIVE TrimLeftSpace(_)
TrimLeftSpace(s) ==
    IF Len(s) > 0 /\ IsSpace(SubSeq(s, 1, 1))
    THEN TrimLeftSpace(SubSeq(s, 2, Len(s)))
    ELSE s

\* The body of the loop of normalizeToUTF8Lines for line i (counted from
\* 0): the line kept and the errors reported, all about the line as it was.
normalizeLine(line, i) ==
    LET src == Source(<<line>>, i)
        c == CutSuffix(line, "\r")
        tr == TrimRightSpace(c.rest)
        tl == TrimLeftSpace(tr)
    IN [line |-> tl,
        errs |->
            (IF ContainsRune(line, RuneError)
             THEN <<Err("InvalidUTF8Error", src, "", NoOpen)>> ELSE <<>>)
            \o (IF c.ok THEN <<Err("DOSNewlineError", src, "", NoOpen)>> ELSE <<>>)
            \o (IF tr # c.rest
                THEN <<Err("TrailingWhitespaceError", src, "", NoOpen)>> ELSE <<>>)
            \o (IF tl # tr
                THEN <<Err("LeadingWhitespaceError", src, "", NoOpen)>> ELSE <<>>)]

\* The loop over the lines ret[i..]: the errors in the order reported.
RECURSIVE normalizeErrs(_, _)
normalizeErrs(ret, i) ==
    IF i > Len(ret) THEN <<>>
    ELSE normalizeLine(ret[i], i - 1).errs \o normalizeErrs(ret, i + 1)

\* normalizeToUTF8Lines once the input is decoded to text: the lines
\* returned and the errors reported about them.
normalizeLines(text) ==
    IF Len(text) = 0 THEN [lines |-> <<>>, errs |-> <<>>]
    ELSE [lines |-> [i \in 1..Len(Split(text, "\n")) |->
                        normalizeLine(Split(text, "\n")[i], i - 1).line],
          errs |-> normalizeErrs(Split(text, "\n"), 1)]

(***************************************************************************)
(* file.go: normalizeToUTF8Lines from the bytes on.  The decoders are those *)
(* of golang.org/x/text/encoding/unicode: they drop a byte order mark at   *)
(* the very start of the input only, and turn what they cannot decode into *)
(* the replacement character.  The characters told apart are those of     *)
(* printable ASCII, the white space characters, U+FEFF and U+FFFD; every   *)
(* other character is written OtherChar.                                   *)
(***************************************************************************)
bomUTF8 == <<239, 187, 191>>

bomUTF16BE == <<254, 255>>

bomUTF16LE == <<255, 254>>

\* U+FEFF, the character a byte order mark decodes to when it is kept; its
\* UTF-8 form is the bytes of bomUTF8.  The string holds that one character.
BOMChar == "﻿"

\* Any character that is none of the others (written as U+00A4).
OtherChar == "¤"

\* The characters with the code points 32 to 95 and 97 to 126, in order
\* (a string cannot spell the one in between).
PrintableLow ==
    " !\"#$%&'()*+,-./0123456789:;<=>?@ABCDEFGHIJKLMNOPQRSTUVWXYZ[\\]^_"

PrintableHigh == "abcdefghijklmnopqrstuvwxyz{|}~"

\* bytes.HasPrefix
BytesHasPrefix(bs, pre) ==
    Len(bs) >= Len(pre) /\ SubSeq(bs, 1, Len(pre)) = pre

\* The code points of the white space characters written SpaceChar.
OtherSpaceCodes == (8192..8202) \cup {8232, 8233, 8239, 8287, 12288}

\* The character with code point u.
CharOf(u) ==
    CASE u \in 32..95 -> SubSeq(PrintableLow, u - 31, u - 31)
      [] u \in 97..126 -> SubSeq(PrintableHigh, u - 96, u - 96)
      [] u = 9 -> "\t"
      [] u = 10 -> "\n"
      [] u = 11 -> VTChar
      [] u = 12 -> "\f"
      [] u = 13 -> "\r"
      [] u = 133 -> NELChar
      [] u = 160 -> NBSPChar
      [] u = 5760 -> OghamChar
      [] u \in OtherSpaceCodes -> SpaceChar
      [] u = 65279 -> BOMChar
      [] u = 65533 -> RuneError
      [] OTHER -> OtherChar

\* The number of bytes of the UTF-8 sequence the byte b starts, 0 for a
\* byte that starts none (80 to C1, F5 to FF).
utf8Size(b) ==
    IF b \in 194..223 THEN 2
    ELSE IF b \in 224..239 THEN 3
    ELSE IF b \in 240..244 THEN 4
    ELSE 0

\* The second bytes that may follow the first byte b: no overlong form, no
\* surrogate, nothing above U+10FFFF.
utf8Accept(b) ==
    CASE b = 224 -> 160..191
      [] b = 237 -> 128..159
      [] b = 240 -> 144..191
      [] b = 244 -> 128..143
      [] OTHER -> 128..191

\* The sequence at the head of bs, which starts with a byte of 128 or more:
\* its length and whether it is well formed.  An ill-formed sequence is as
\* long as its maximal well-formed start, one byte at least.
utf8Head(bs) ==
    LET size == utf8Size(bs[1])
    IN IF size = 0 THEN [n |-> 1, ok |-> FALSE]
       ELSE IF Len(bs) < 2 \/ bs[2] \notin utf8Accept(bs[1])
       THEN [n |-> 1, ok |-> FALSE]
       ELSE IF size = 2 THEN [n |-> 2, ok |-> TRUE]
       ELSE IF Len(bs) < 3 \/ bs[3] \notin 128..191
       THEN [n |-> 2, ok |-> FALSE]
       ELSE IF size = 3 THEN [n |-> 3, ok |-> TRUE]
       ELSE IF Len(bs) < 4 \/ bs[4] \notin 128..191
       THEN [n |-> 3, ok |-> FALSE]
       ELSE [n |-> 4, ok |-> TRUE]

\* The code point of the well-formed sequence of n bytes at the head of bs.
utf8Rune(bs, n) ==
    CASE n = 2 -> (bs[1] - 192) * 64 + (bs[2] - 128)
      [] n = 3 -> (bs[1] - 224) * 4096 + (bs[2] - 128) * 64 + (bs[3] - 128)
      [] OTHER -> (bs[1] - 240) * 262144 + (bs[2] - 128) * 4096
                      + (bs[3] - 128) * 64 + (bs[4] - 128)

\* UTF-8 to text: one character for a well-formed sequence, the replacement
\* character for each ill-formed one.
RECURSIVE decodeUTF8(_)
decodeUTF8(bs) ==
    IF Len(bs) = 0 THEN ""
    ELSE IF bs[1] < 128 THEN CharOf(bs[1]) \o decodeUTF8(Tail(bs))
    ELSE (IF utf8Head(bs).ok
          THEN CharOf(utf8Rune(bs, utf8Head(bs).n)) ELSE RuneError)
             \o decodeUTF8(SubSeq(bs, utf8Head(bs).n + 1, Len(bs)))

\* The 16-bit unit made of the bytes bs[i] and bs[i + 1].
utf16Unit(bs, i, bigEndian) ==
    IF bigEndian THEN bs[i] * 256 + bs[i + 1] ELSE bs[i + 1] * 256 + bs[i]

\* UTF-16 to text, one unit a character, or two for a surrogate pair.  A
\* surrogate followed by a unit of DC00 to DFFF is decoded with it, to the
\* replacement character unless it is a leading one (D800 to DBFF); any
\* other surrogate and a last odd byte are the replacement character.
RECURSIVE decodeUTF16(_, _)
decodeUTF16(bs, bigEndian) ==
    IF Len(bs) = 0 THEN ""
    ELSE IF Len(bs) = 1 THEN RuneError
    ELSE LET x == utf16Unit(bs, 1, bigEndian)
         IN IF x \notin 55296..57343
            THEN CharOf(x) \o decodeUTF16(SubSeq(bs, 3, Len(bs)), bigEndian)
            ELSE IF Len(bs) >= 4 /\ utf16Unit(bs, 3, bigEndian) \in 56320..57343
            THEN (IF x \in 55296..56319
                  THEN CharOf(65536 + (x - 55296) * 1024
                                  + (utf16Unit(bs, 3, bigEndian) - 56320))
                  ELSE RuneError)
                     \o decodeUTF16(SubSeq(bs, 5, Len(bs)), bigEndian)
            ELSE RuneError \o decodeUTF16(SubSeq(bs, 3, Len(bs)), bigEndian)

\* enc.NewDecoder().Bytes(bs) for the three transformers.  The UTF-16
\* decoders are made with UseBOM: a mark at the start overrides enc.
decodeBytes(enc, bs) ==
    IF enc = "UTF-8"
    THEN IF BytesHasPrefix(bs, bomUTF8)
         THEN decodeUTF8(SubSeq(bs, 4, Len(bs))) ELSE decodeUTF8(bs)
    ELSE IF BytesHasPrefix(bs, bomUTF16BE)
    THEN decodeUTF16(SubSeq(bs, 3, Len(bs)), TRUE)
    ELSE IF BytesHasPrefix(bs, bomUTF16LE)
    THEN decodeUTF16(SubSeq(bs, 3, Len(bs)), FALSE)
    ELSE decodeUTF16(bs, enc = "UTF-16BE")

\* The encoding errors; name is the encoding reported.
EncodingErr(kind, name) == Err(kind, NoSource, name, NoOpen)

\* The switch that opens normalizeToUTF8Lines, reporting a guessed encoding
\* under the name of a marked one.
selectEncodingPlainNames(bs) ==
    IF BytesHasPrefix(bs, bomUTF8)
    THEN [enc |-> "UTF-8", errs |-> <<EncodingErr("UTF8BOMError", "")>>]
    ELSE IF BytesHasPrefix(bs, bomUTF16BE)
    THEN [enc |-> "UTF-16BE",
          errs |-> <<EncodingErr("InvalidEncodingError", "UTF-16BE")>>]
    ELSE IF BytesHasPrefix(bs, bomUTF16LE)
    THEN [enc |-> "UTF-16LE",
          errs |-> <<EncodingErr("InvalidEncodingError", "UTF-16LE")>>]
    ELSE IF guessUTFVariant(bs) = "UTF-16BE"
    THEN [enc |-> "UTF-16BE",
          errs |-> <<EncodingErr("InvalidEncodingError", "UTF-16BE")>>]
    ELSE IF guessUTFVariant(bs) = "UTF-16LE"
    THEN [enc |-> "UTF-16LE",
          errs |-> <<EncodingErr("InvalidEncodingError", "UTF-16LE")>>]
    ELSE [enc |-> "UTF-8", errs |-> <<>>]

\* The switch that opens normalizeToUTF8Lines: the transformer to decode
\* with and the errors about the encoding.
selectEncoding(bs) ==
    IF BytesHasPrefix(bs, bomUTF8)
    THEN [enc |-> "UTF-8", errs |-> <<EncodingErr("UTF8BOMError", "")>>]
    ELSE IF BytesHasPrefix(bs, bomUTF16BE)
    THEN [enc |-> "UTF-16BE",
          errs |-> <<EncodingErr("InvalidEncodingError", "UTF-16BE")>>]
    ELSE IF BytesHasPrefix(bs, bomUTF16LE)
    THEN [enc |-> "UTF-16LE",
          errs |-> <<EncodingErr("InvalidEncodingError", "UTF-16LE")>>]
    ELSE IF guessUTFVariant(bs) = "UTF-16BE"
    THEN [enc |-> "UTF-16BE",
          errs |-> <<EncodingErr("InvalidEncodingError", "UTF-16BE (guessed)")>>]
    ELSE IF guessUTFVariant(bs) = "UTF-16LE"
    THEN [enc |-> "UTF-16LE",
          errs |-> <<EncodingErr("InvalidEncodingError", "UTF-16LE (guessed)")>>]
    ELSE [enc |-> "UTF-8", errs |-> <<>>]

\* normalizeToUTF8Lines once the encoding is selected and the text decoded.
normalizeDecoded(sel, n) ==
    [enc |-> sel.enc, lines |-> n.lines, errs |-> sel.errs \o n.errs]

\* normalizeToUTF8Lines: the lines and the errors returned, and the
\* transformer the input was decoded with.
normalizeToUTF8Lines(bs) ==
    normalizeDecoded(selectEncoding(bs),
                     normalizeLines(decodeBytes(selectEncoding(bs).enc, bs)))

(***************************************************************************)
(* parser.go: line classification                                          *)
(***************************************************************************)
commentPrefix == "// "

sectionMarkerPrefix == "// ==="

sectionStart == "// ===BEGIN "

sectionEnd == "// ===END "

amazonGroupStart == "// Amazon : https://www.amazon.com/"

amazonGroupEnd == "// concludes Amazon"

isEmpty(s) == s = ""

isSectionStart(s) == HasPrefix(s, sectionStart)

isSectionEnd(s) == HasSuffix(s, sectionEnd)

isAnySectionMarker(s) == HasPrefix(s, sectionMarkerPrefix)

isGroupStart(s) == s = amazonGroupStart

isGroupEnd(s) == s = amazonGroupEnd

isComment(s) ==
    /\ HasPrefix(s, commentPrefix)
    /\ ~isAnySectionMarker(s)
    /\ ~isGroupStart(s)
    /\ ~isGroupEnd(s)

\* Called by the grammar functions, defined in no source file: a line that
\* looks like a section marker, i.e. carries the "// ===" prefix.
isPotentialSectionMarker(s) == isAnySectionMarker(s)

\* Called by the grammar functions, defined in no source file.
isStartOfGroup(s) == isGroupStart(s)

\* Called by parseGroup, defined in no source file.
isPotentialEndOfGroup(s) == isGroupEnd(s)

\* parseSectionMarker: "// ===<VERB> <NAME>===" -> kind, name, missingTerminator
parseSectionMarker(marker) ==
    LET m1 == TrimPrefix(marker, sectionMarkerPrefix)
        c == CutSuffix(m1, "===")
        k == Cut(c.rest, " ")
    IN IF ~k.found
       THEN [kind |-> "", name |-> "", missingTerminator |-> ~c.ok]
       ELSE [kind |-> k.before, name |-> k.after, missingTerminator |-> ~c.ok]

parseGroupStartMarker(marker) ==
    IF marker # amazonGroupStart
    THEN [groupName |-> "", ok |-> FALSE]
    ELSE [groupName |-> "Amazon", ok |-> TRUE]

parseGroupEndMarker(marker) ==
    IF marker # amazonGroupEnd
    THEN [groupName |-> "", ok |-> FALSE]
    ELSE [groupName |-> "Amazon", ok |-> TRUE]

\* Called by parseGroup and parseRogueGroup, defined in no source file.
parseGroupStart(marker) == parseGroupStartMarker(marker)

\* parseDNSLabels as the source has it: the labels of s, no validation.
parseDNSLabels(s) == Split(s, ".")

\* parseSuffix and parseSuffixException read three results (labels,
\* wildcard, err) from parseDNSLabels.  The labels are the ones the function
\* of the source computes; the wildcard result is in no source file: a
\* leading "*." marks the name as a wildcard.
parseDNSLabelsWildcard(s) ==
    [labels |-> parseDNSLabels(s), wildcard |-> HasPrefix(s, "*.")]

(***************************************************************************)
(* parser.go: the parser state                                             *)
(***************************************************************************)
NewParser(src) ==
    [lines |-> src.lines, lineOffset |-> src.lineOffset,
     blocks |-> <<>>, errs |-> <<>>, stack |-> <<>>, panic |-> ""]

\* The embedded Source of the parser: the input not yet consumed.
Src(q) == Source(q.lines, q.lineOffset)

SetSrc(q, s) == [q EXCEPT !.lines = s.lines, !.lineOffset = s.lineOffset]

Panic(q, msg) == [q EXCEPT !.panic = msg]

addBlock(q, b) == [q EXCEPT !.blocks = Append(@, b)]

addError(q, err) == [q EXCEPT !.errs = Append(@, err)]

\* pushState, popState and lastBlock are called by the grammar functions and
\* defined in no source file.  Entering a construct pushes a frame scoped to
\* its sub-range with a fresh accumulator; popping restores the parent frame
\* and hands back the children accumulated meanwhile.  The error list is
\* shared by all frames.
pushState(q, src) ==
    [q EXCEPT !.stack = Append(@, [lines |-> q.lines,
                                   lineOffset |-> q.lineOffset,
                                   blocks |-> q.blocks]),
              !.lines = src.lines,
              !.lineOffset = src.lineOffset,
              !.blocks = <<>>]

popState(q) ==
    LET top == q.stack[Len(q.stack)]
    IN [q EXCEPT !.stack = SubSeq(@, 1, Len(@) - 1),
                 !.lines = top.lines,
                 !.lineOffset = top.lineOffset,
                 !.blocks = top.blocks]

\* lastBlock: the most recently emitted block of the current frame, if any.
HasLastBlock(q) == Len(q.blocks) > 0

lastBlock(q) == q.blocks[Len(q.blocks)]

\* takeUntil: called by parseGroup, defined in no source file.  Consumes up
\* to and including the first line matching fn and reports whether one was
\* found; without a match it consumes everything.
takeUntil(s, fn) ==
    LET I == {i \in 1..Len(s.lines) : fn[s.lines[i]]}
    IN IF I = {}
       THEN [taken |-> s, rest |-> Source(<<>>, s.lineOffset + Len(s.lines)),
             found |-> FALSE]
       ELSE LET t == takeN(s, CHOOSE i \in I : \A j \in I : i <= j)
            IN [taken |-> t.taken, rest |-> t.rest, found |-> TRUE]

\* Source.last exists only as commented-out code in file.go.
last(s) == slice(s, Len(s.lines) - 1, Len(s.lines))

(***************************************************************************)
(* parser.go: the grammar functions.  Each maps the parser before the call *)
(* to the parser after it.                                                 *)
(***************************************************************************)

\* parseWhitespace: the parser afterwards and the value returned.
parseWhitespace(q) ==
    LET t == takeWhile(Src(q), [l \in STRING |-> isEmpty(l)])
        q1 == SetSrc(q, t.rest)
        q2 == IF ~empty(t.taken) THEN addBlock(q1, BlankLines(t.taken)) ELSE q1
    IN [p |-> q2, ret |-> empty(Src(q2))]

parseComment(q) ==
    LET t == takeWhile(Src(q), [l \in STRING |-> isComment(l)])
        q1 == SetSrc(q, t.rest)
    IN IF ~empty(t.taken)
       THEN Panic(q1, "unexpected: parseComment called but no comment found")
       ELSE addBlock(q1, Comment(t.taken))

\* parseInvalid: takeOne slices past the end of an empty range.
parseInvalid(q) ==
    IF empty(Src(q))
    THEN Panic(q, "slice bounds out of range")
    ELSE LET t == takeOne(Src(q))
         IN addBlock(SetSrc(q, t.rest), InvalidSource(t.taken))

\* The duplicate test comparing labels with the base instead of with the
\* exceptions recorded for it.
isDuplicateOfBase(prev, labels) == SlicesEqual(prev.suffix, labels)

\* slices.ContainsFunc(prev.Exceptions, ... slices.Equal(e, labels))
isDuplicate(prev, labels) ==
    \E i \in 1..Len(prev.exceptions) : SlicesEqual(prev.exceptions[i], labels)

\* The type assertion of parseSuffixException passing for any block.
prevIsAnyBlock(q) == HasLastBlock(q)

\* prev, ok := p.lastBlock().(*Suffix): ok, for a frame that may be empty.
prevIsSuffix(q) == HasLastBlock(q) /\ lastBlock(q).kind = "Suffix"

\* parseSuffixException extending the Source of the base by the line before
\* it checks the line against the base.
parseSuffixExceptionExtendsFirst(q) ==
    LET src == first(Src(q))
        text == Text(src)
        r == parseDNSLabelsWildcard(SubSeq(text, 2, Len(text)))
        prev == lastBlock(q)
        q1 == [q EXCEPT !.blocks[Len(q.blocks)].src = append(prev.src, src)]
    IN IF r.wildcard
       THEN parseInvalid(addError(q, Err("ExceptionAndWildcardSuffixError", src, "", NoOpen)))
       ELSE IF ~prevIsSuffix(q)
       THEN parseInvalid(addError(q, Err("ExceptionNotDirectlyFollowingBaseError", src, "", NoOpen)))
       ELSE IF ~IsDirectChildOf(r.labels, prev.suffix)
       THEN parseInvalid(addError(q1, Err("InvalidExceptionError", src, "", Open(Text(prev.src), prev.src))))
       ELSE IF isDuplicate(prev, r.labels)
       THEN parseInvalid(addError(q1, Err("DuplicateExceptionError", src, "", NoOpen)))
       ELSE LET t == takeOne(Src(q))
            IN IF ~AppendOk(prev.src, t.taken)
               THEN Panic(SetSrc(q, t.rest), "invalid append of non-adjacent Sources")
               ELSE [SetSrc(q, t.rest) EXCEPT
                       !.blocks[Len(q.blocks)] =
                           Suffix(append(prev.src, t.taken), prev.suffix,
                                  prev.wildcard,
                                  Append(prev.exceptions, r.labels))]

\* parseSuffixException looking for the base before the wildcard test.
parseSuffixExceptionBaseFirst(q) ==
    LET src == first(Src(q))
        text == Text(src)
        r == parseDNSLabelsWildcard(SubSeq(text, 2, Len(text)))
        prev == lastBlock(q)
    IN IF ~prevIsSuffix(q)
       THEN parseInvalid(addError(q, Err("ExceptionNotDirectlyFollowingBaseError", src, "", NoOpen)))
       ELSE IF r.wildcard
       THEN parseInvalid(addError(q, Err("ExceptionAndWildcardSuffixError", src, "", NoOpen)))
       ELSE IF ~IsDirectChildOf(r.labels, prev.suffix)
       THEN parseInvalid(addError(q, Err("InvalidExceptionError", src, "", Open(Text(prev.src), prev.src))))
       ELSE IF isDuplicate(prev, r.labels)
       THEN parseInvalid(addError(q, Err("DuplicateExceptionError", src, "", NoOpen)))
       ELSE LET t == takeOne(Src(q))
            IN IF ~AppendOk(prev.src, t.taken)
               THEN Panic(SetSrc(q, t.rest), "invalid append of non-adjacent Sources")
               ELSE [SetSrc(q, t.rest) EXCEPT
                       !.blocks[Len(q.blocks)] =
                           Suffix(append(prev.src, t.taken), prev.suffix,
                                  prev.wildcard,
                                  Append(prev.exceptions, r.labels))]

parseSuffixException(q) ==
    LET src == first(Src(q))
        text == Text(src)
        r == parseDNSLabelsWildcard(SubSeq(text, 2, Len(text)))
        prev == lastBlock(q)
    IN IF r.wildcard
       THEN parseInvalid(addError(q, Err("ExceptionAndWildcardSuffixError", src, "", NoOpen)))
       ELSE IF ~prevIsSuffix(q)
       THEN parseInvalid(addError(q, Err("ExceptionNotDirectlyFollowingBaseError", src, "", NoOpen)))
       ELSE IF ~IsDirectChildOf(r.labels, prev.suffix)
       THEN parseInvalid(addError(q, Err("InvalidExceptionError", src, "", Open(Text(prev.src), prev.src))))
       ELSE IF isDuplicate(prev, r.labels)
       THEN parseInvalid(addError(q, Err("DuplicateExceptionError", src, "", NoOpen)))
       ELSE LET t == takeOne(Src(q))
            IN IF ~AppendOk(prev.src, t.taken)
               THEN Panic(SetSrc(q, t.rest), "invalid append of non-adjacent Sources")
               ELSE [SetSrc(q, t.rest) EXCEPT
                       !.blocks[Len(q.blocks)] =
                           Suffix(append(prev.src, t.taken), prev.suffix,
                                  prev.wildcard,
                                  Append(prev.exceptions, r.labels))]

parseSuffix(q) ==
    IF ~SliceOk(Src(q), 0, 1)
    THEN Panic(q, "invalid input to slice")
    ELSE LET src == first(Src(q))
         IN IF HasPrefix(Text(src), "!")
            THEN parseSuffixException(q)
            ELSE LET r == parseDNSLabelsWildcard(Text(src))
                     t == takeOne(Src(q))
                 IN addBlock(SetSrc(q, t.rest),
                             Suffix(t.taken, r.labels, r.wildcard, <<>>))

\* The switch of parseSuffixBlock's loop: the function called for next.
suffixBlockSwitch(next) ==
    IF isPotentialSectionMarker(next) THEN "parseInvalid"
    ELSE IF isComment(next) THEN "parseComment"
    ELSE "parseSuffix"

\* One run of the body of parseSuffixBlock's loop.
suffixBlockBody(q) ==
    IF ~SliceOk(Src(q), 0, 1)
    THEN Panic(q, "invalid input to slice")
    ELSE LET fn == suffixBlockSwitch(Text(first(Src(q))))
         IN CASE fn = "parseInvalid" -> parseInvalid(q)
              [] fn = "parseComment" -> parseComment(q)
              [] OTHER -> parseSuffix(q)

RECURSIVE suffixBlockLoop(_)

\* After one run of the body: the next iteration, unless it panicked.
suffixBlockNext(q) ==
    IF q.panic # "" THEN q ELSE suffixBlockLoop(q)

suffixBlockLoop(q) ==
    LET w == parseWhitespace(q)
    IN IF ~w.ret THEN w.p ELSE suffixBlockNext(suffixBlockBody(w.p))

\* parseSuffixBlock up to its loop, leaving the lines of the suffix block
\* in the range of the parent as well.
suffixBlockEnterParentKeeps(q) ==
    pushState(q, takeWhileNot(Src(q), [l \in STRING |-> isEmpty(l)]).taken)

\* parseSuffixBlock up to its loop: the frame of the suffix block.
suffixBlockEnter(q) ==
    LET t == takeWhileNot(Src(q), [l \in STRING |-> isEmpty(l)])
    IN pushState(SetSrc(q, t.rest), t.taken)

\* The deferred function of parseSuffixBlock.  It runs when the function
\* is left, by a return and by a panic of the loop alike: q keeps its
\* panic.
suffixBlockLeave(q, src) ==
    addBlock(popState(q), Suffixes(src, q.blocks))

\* The Source of the Suffixes node parseSuffixBlock builds from q.
suffixesOf(q) == takeWhileNot(Src(q), [l \in STRING |-> isEmpty(l)]).taken

parseSuffixBlock(q) ==
    suffixBlockLeave(suffixBlockLoop(suffixBlockEnter(q)), suffixesOf(q))

parseRogueGroup(q, group) ==
    IF ~SliceOk(Src(q), 0, 1)
    THEN Panic(q, "invalid input to slice")
    ELSE LET src == first(Src(q))
             g == parseGroupStart(Text(src))
         IN IF ~g.ok
            THEN Panic(q, "unparseable rogue group")
            ELSE parseInvalid(addError(q, Err("NestedGroupError", src, g.groupName, group)))

parseRogueSection(q, section) ==
    IF ~SliceOk(Src(q), 0, 1)
    THEN Panic(q, "invalid input to slice")
    ELSE LET src == first(Src(q))
             m == parseSectionMarker(Text(src))
         IN IF m.name = "" \/ (m.kind # "BEGIN" /\ m.kind # "END")
            THEN parseInvalid(addError(q, Err("UnknownSectionMarker", src, "", NoOpen)))
            ELSE IF m.kind = "BEGIN"
            THEN parseInvalid(addError(q, Err("NestedSectionError", src, m.name, section)))
            ELSE IF m.name # section.name
            THEN parseInvalid(addError(q, Err("MismatchedSectionError", src, m.name, section)))
            ELSE IF m.missingTerminator
            THEN parseInvalid(addError(q, Err("UnterminatedSectionMarker", src, "", NoOpen)))
            ELSE Panic(q, "unreachable")

\* The switch of parseGroup's loop.
groupSwitch(next) ==
    IF isPotentialSectionMarker(next) THEN "parseRogueSection"
    ELSE IF isStartOfGroup(next) THEN "parseRogueGroup"
    ELSE "parseSuffixBlock"

\* One run of the body of parseGroup's loop.
groupBody(q, section, group) ==
    IF ~SliceOk(Src(q), 0, 1)
    THEN Panic(q, "invalid input to slice")
    ELSE LET fn == groupSwitch(Text(first(Src(q))))
         IN CASE fn = "parseRogueSection" -> parseRogueSection(q, section)
              [] fn = "parseRogueGroup" -> parseRogueGroup(q, group)
              [] OTHER -> parseSuffixBlock(q)

RECURSIVE groupLoop(_, _, _)

\* After one run of the body: the next iteration, unless it panicked.
groupNext(q, section, group) ==
    IF q.panic # "" THEN q ELSE groupLoop(q, section, group)

groupLoop(q, section, group) ==
    LET w == parseWhitespace(q)
    IN IF ~w.ret THEN w.p ELSE groupNext(groupBody(w.p, section, group), section, group)

\* parseGroup up to its loop: the frame of the group, with the diagnostic
\* about its end marker.
groupEnter(q) ==
    LET t == takeUntil(Src(q), [l \in STRING |-> isPotentialEndOfGroup(l)])
        src == t.taken
    IN IF ~SliceOk(src, 0, 1)
       THEN Panic(q, "invalid input to slice")
       ELSE LET g == parseGroupStart(Text(first(src)))
                group == Open(g.groupName, src)
                q1 == pushState(addBlock(SetSrc(q, t.rest),
                                         Group(src, g.groupName, <<>>)), src)
            IN IF ~g.ok
               THEN Panic(SetSrc(q, t.rest), "parseGroup called but wasn't start of a group")
               ELSE IF t.found
               THEN LET endName == parseGroupEndMarker(Text(last(src))).groupName
                    IN IF endName # group.name
                       THEN addError(q1, Err("MismatchedGroupError", src, endName, group))
                       ELSE q1
               ELSE addError(q1, Err("UnclosedGroupError", src, "", group))

\* The group parseGroup builds from q: its name and Source.
groupOf(q) ==
    LET src == takeUntil(Src(q), [l \in STRING |-> isPotentialEndOfGroup(l)]).taken
    IN Open(parseGroupStart(Text(first(src))).groupName, src)

\* group.Blocks = children, for the group that is the last block of q.
setGroupBlocks(q, children) ==
    [q EXCEPT !.blocks[Len(q.blocks)].blocks = children]

\* The deferred function of parseGroup.  It runs when the function is
\* left after the frame is pushed, by a return and by a panic of the loop
\* alike: q keeps its panic.
groupLeave(q, group) ==
    setGroupBlocks(popState(q), q.blocks)

\* A panic before the frame is pushed leaves with no deferred function to
\* run.
parseGroup(q, section) ==
    IF groupEnter(q).panic # "" THEN groupEnter(q)
    ELSE groupLeave(groupLoop(groupEnter(q), section, groupOf(q)), groupOf(q))

\* The switch of the loop in parseSection.
sectionSwitch(next) ==
    IF isPotentialSectionMarker(next) THEN "parseRogueSection"
    ELSE IF isStartOfGroup(next) THEN "parseGroup"
    ELSE "parseSuffixBlock"

\* One run of the body of the loop in parseSection, on the sub-parser.
sectionBody(q, section) ==
    IF ~SliceOk(Src(q), 0, 1)
    THEN Panic(q, "invalid input to slice")
    ELSE LET fn == sectionSwitch(Text(first(Src(q))))
         IN CASE fn = "parseRogueSection" -> parseRogueSection(q, section)
              [] fn = "parseGroup" -> parseGroup(q, section)
              [] OTHER -> parseSuffixBlock(q)

RECURSIVE sectionLoop(_, _)

\* After one run of the body: the next iteration, unless it panicked.
sectionNext(q, section) ==
    IF q.panic # "" THEN q ELSE sectionLoop(q, section)

sectionLoop(q, section) ==
    LET w == parseWhitespace(q)
    IN IF ~w.ret THEN w.p ELSE sectionNext(sectionBody(w.p, section), section)

\* The switch of parseSection over the parsed marker: the one diagnostic to
\* report, the most severe, or "" for a well-formed BEGIN marker.
sectionMarkerCheckTerminatorFirst(m) ==
    IF m.name = "" \/ (m.kind # "BEGIN" /\ m.kind # "END")
    THEN "UnknownSectionMarker"
    ELSE IF m.missingTerminator THEN "UnterminatedSectionMarker"
    ELSE IF m.kind = "END" THEN "UnstartedSectionError"
    ELSE ""

sectionMarkerCheck(m) ==
    IF m.name = "" \/ (m.kind # "BEGIN" /\ m.kind # "END")
    THEN "UnknownSectionMarker"
    ELSE IF m.kind = "END" THEN "UnstartedSectionError"
    ELSE IF m.missingTerminator THEN "UnterminatedSectionMarker"
    ELSE ""

\* The end of parseSection: sub, the sub-parser after its loop, is a local
\* of the function; nothing of it reaches q except a panic.
sectionReturn(q, sub) == IF sub.panic # "" THEN Panic(q, sub.panic) ELSE q

\* The body of a section taken as all the lines after its marker.
sectionDefsToEnd(s) == takeN(s, NumLines(s))

\* defs := p.takeWhileNot(isPotentialSectionMarker), on the range s that
\* follows the marker of a section: the body, and the range left.
sectionDefs(s) ==
    takeWhileNot(s, [l \in STRING |-> isPotentialSectionMarker(l)])

\* parseSection on a well-formed BEGIN marker, up to its loop: the parser
\* once the marker and the body of the section are taken from it.
sectionEnter(q) ==
    SetSrc(q, sectionDefs(takeOne(Src(q)).rest).rest)

\* parseSection.  The diagnostics are built from src, a name the function
\* does not declare; the marker line it holds is start.
parseSection(q) ==
    IF empty(Src(q))
    THEN Panic(q, "slice bounds out of range")
    ELSE LET t == takeOne(Src(q))
             start == t.taken
             m == parseSectionMarker(Text(start))
             q1 == SetSrc(q, t.rest)
             kind == sectionMarkerCheck(m)
             name == IF kind = "UnstartedSectionError" THEN m.name ELSE ""
         IN IF kind # ""
            THEN addBlock(addError(q1, Err(kind, start, name, NoOpen)),
                          InvalidSource(start))
            ELSE LET d == sectionDefs(Src(q1))
                     defs == d.taken
                     q2 == SetSrc(q1, d.rest)
                     section == Open(m.name, append(start, defs))
                 IN IF ~AppendOk(start, defs)
                    THEN Panic(q2, "invalid append of non-adjacent Sources")
                    ELSE sectionReturn(q2, sectionLoop(NewParser(defs), section))

\* The switch of parseTopLevel's loop.
topLevelSwitch(next) ==
    IF isComment(next) THEN "parseComment"
    ELSE IF isPotentialSectionMarker(next) THEN "parseSection"
    ELSE "parseInvalid"

\* One run of the body of parseTopLevel's loop.
topLevelBody(q) ==
    IF ~SliceOk(Src(q), 0, 1)
    THEN Panic(q, "invalid input to slice")
    ELSE LET fn == topLevelSwitch(Text(first(Src(q))))
         IN CASE fn = "parseComment" -> parseComment(q)
              [] fn = "parseSection" -> parseSection(q)
              [] OTHER -> parseInvalid(q)

RECURSIVE parseTopLevel(_)

\* After one run of the body: the next iteration, unless it panicked.
topLevelNext(q) ==
    IF q.panic # "" THEN q ELSE parseTopLevel(q)

parseTopLevel(q) ==
    LET w == parseWhitespace(q)
    IN IF ~w.ret THEN w.p ELSE topLevelNext(topLevelBody(w.p))

\* newSource: the Source over the normalized lines of bs, and the errors
\* the normalizer reports.
newSource(bs) ==
    [src |-> Source(normalizeToUTF8Lines(bs).lines, 0),
     errs |-> normalizeToUTF8Lines(bs).errs]

\* p := parser{state: state{Source: src}, errs: srcErrs}
ParserOf(src, srcErrs) == [NewParser(src) EXCEPT !.errs = srcErrs]

\* Parse on the bytes bs: the parser when Parse returns (its blocks and
\* errs are the File's Blocks and Errors), or the parser at the panic.  The
\* error list starts as the errors of newSource.  Parse calls p.parse(),
\* which no source file defines; the function that "consumes all the input
\* and returns the top-level File" is parseTopLevel.
Parse(bs) ==
    parseTopLevel(ParserOf(newSource(bs).src, newSource(bs).errs))

(***************************************************************************)
(* The program.                                                            *)
(*                                                                         *)
(* frame.bytes is the input of Parse, input the line buffer newSource      *)
(* makes of it, p the parser Parse creates over it (its error list starts  *)
(* as the errors of newSource), and call the last call made ([fn, pre,     *)
(* ret]: the function, the parser before the call, and the value returned  *)
(* by parseWhitespace).  The one step is Parse itself: its loop either     *)
(* leaves at the first parseWhitespace or panics in its first body, so it  *)
(* has no state in between worth a step.                                   *)
(***************************************************************************)

\* Lines of an input as written: blank, comment, section markers, a line
\* that is none of them, and lines with white space or a carriage return
\* to tidy.
RawLines ==
    {"", "// c", "// ===BEGIN A===", "// ===END A===", "// ===END B===",
     "a.b", "a.b ", " // c", "a.b\r", "\fa.b"}

RECURSIVE SeqsUpTo(_, _)
SeqsUpTo(S, n) ==
    IF n = 0 THEN {<<>>}
    ELSE LET T == SeqsUpTo(S, n - 1)
         IN T \cup {Append(t, x) : t \in {u \in T : Len(u) = n - 1}, x \in S}

\* The code point of the ASCII character c.
CodeOf(c) ==
    CHOOSE u \in (9..13) \cup (32..95) \cup (97..126) : CharOf(u) = c

\* The UTF-8 bytes of an ASCII text.
BytesOf(text) == [i \in 1..Len(text) |-> CodeOf(SubSeq(text, i, i))]

LineBytes == [l \in RawLines |-> BytesOf(l)]

\* The bytes of the lines raw, a line feed between one and the next.
RECURSIVE JoinBytes(_)
JoinBytes(raw) ==
    IF Len(raw) = 0 THEN <<>>
    ELSE IF Len(raw) = 1 THEN LineBytes[raw[1]]
    ELSE LineBytes[raw[1]] \o <<10>> \o JoinBytes(Tail(raw))

\* What an input starts with: nothing, or the UTF-8 byte order mark.
ProgramLeads == {<<>>, bomUTF8}

NoCall(q) == [fn |-> "none", pre |-> q, ret |-> FALSE]

Called(fn, q, ret) == [fn |-> fn, pre |-> q, ret |-> ret]

\* The state once Parse has made its parser.
Init ==
    /\ \E lead \in ProgramLeads, raw \in SeqsUpTo(RawLines, MaxLines) :
           frame = [kind |-> "program", bytes |-> lead \o JoinBytes(raw)]
    /\ input = newSource(frame.bytes).src.lines
    /\ p = ParserOf(newSource(frame.bytes).src, newSource(frame.bytes).errs)
    /\ call = NoCall(p)

\* Parse(bs): the whole program.
DoParse ==
    /\ call.fn = "none"
    /\ p' = Parse(frame.bytes)
    /\ call' = Called("Parse", p, FALSE)
    /\ UNCHANGED <<input, frame>>

Next == DoParse

Spec == Init /\ [][Next]_vars

(***************************************************************************)
(* The grammar functions on their own.  Each is a method of the parser,    *)
(* applied here to a parser whose range starts with a line that the switch *)
(* of a loop sends to it.  input is the line buffer, p the parser, call    *)
(* the last call.  frame tells which parser p is:                          *)
(*   toplevel  a parser as Parse creates it, over the whole input, with    *)
(*             no error or the error of a byte order mark to start with;   *)
(*   section   the parser parseSection creates over the body that follows  *)
(*             the marker BEGIN A, frame.section being that section;       *)
(*   suffixes  that parser once the guard of parseSection's loop has taken *)
(*             the blank lines the body starts with, its switch has sent   *)
(*             the line after them to parseSuffixBlock, and                *)
(*             parseSuffixBlock has pushed the frame of the suffix block   *)
(*             and reached its loop.                                       *)
(* A function is applied to the parser as the calls before it left it, so  *)
(* a run is a sequence of calls that consumes the input from the front.    *)
(***************************************************************************)

\* Lines met at the top level: blank, comment, section markers in good and
\* bad shapes, and a line that is none of them.
TopLines ==
    {"", "// c", "// ===BEGIN A===", "// ===END A===", "// ===END B===",
     "// ===BEGIN A", "// ===END A", "// ===FOO A", "// ===BEGIN===", "a.b"}

\* Lines of a section body.
BodyLines ==
    {"", "// c", amazonGroupStart, amazonGroupEnd,
     "a.b", "*.b", "!c.a.b", "!c.d", "!d.c.a.b", "!*.a.b"}

SectionA == "// ===BEGIN A==="

\* Section markers met after the marker that opens section A: the end of
\* the section, and the end of another.
MarkerLines == {"// ===END A===", "// ===END B==="}

\* The lines after the marker that opens a section: body lines and section
\* markers.
SectionLines == BodyLines \cup MarkerLines

\* The body parseSection cuts from the lines in, which start with BEGIN A.
DefsOf(in) == sectionDefs(takeOne(Source(in, 0)).rest).taken

\* The section parseSection builds from the lines in: BEGIN A on line 0,
\* then the body.
SectionOf(in) == Open("A", append(takeOne(Source(in, 0)).taken, DefsOf(in)))

\* The sub-parser parseSection creates for the body.
SubParser(in) == NewParser(DefsOf(in))

Frame(kind, section, group) == [kind |-> kind, section |-> section, group |-> group]

\* The error lists a parser made by Parse starts with.
StartErrs == {<<>>, <<EncodingErr("UTF8BOMError", "")>>}

InitTopLevel ==
    /\ input \in SeqsUpTo(TopLines, MaxLines)
    /\ frame = Frame("toplevel", NoOpen, NoOpen)
    /\ \E errs \in StartErrs : p = ParserOf(Source(input, 0), errs)

InitSection ==
    \E rest \in SeqsUpTo(SectionLines, MaxLines) :
        /\ input = <<SectionA>> \o rest
        /\ frame = Frame("section", SectionOf(input), NoOpen)
        /\ p = SubParser(input)

InitSuffixBlock ==
    \E rest \in SeqsUpTo(SectionLines, MaxLines) :
        /\ input = <<SectionA>> \o rest
        /\ frame = Frame("suffixes", SectionOf(input), NoOpen)
        /\ ~empty(Src(parseWhitespace(SubParser(input)).p))
        /\ sectionSwitch(Text(first(Src(parseWhitespace(SubParser(input)).p))))
               = "parseSuffixBlock"
        /\ p = suffixBlockEnter(parseWhitespace(SubParser(input)).p)

InitHandlers ==
    /\ InitTopLevel \/ InitSection \/ InitSuffixBlock
    /\ call = NoCall(p)

\* The function the switch of the loop sends the first line of q to: at
\* the top level the switch of parseTopLevel, in the frame of a suffix
\* block that of parseSuffixBlock, in a section body that of parseSection.
Callees(q) ==
    CASE frame.kind = "toplevel" -> {topLevelSwitch(Text(first(Src(q))))}
      [] frame.kind = "suffixes" -> {suffixBlockSwitch(Text(first(Src(q))))}
      [] OTHER -> {sectionSwitch(Text(first(Src(q))))}

\* fn can be called on p: the parser runs, lines are left, and a switch
\* sends the first of them to fn.
CanCall(fn) == p.panic = "" /\ ~empty(Src(p)) /\ fn \in Callees(p)

CallParseWhitespace ==
    /\ p.panic = ""
    /\ p' = parseWhitespace(p).p
    /\ call' = Called("parseWhitespace", p, parseWhitespace(p).ret)
    /\ UNCHANGED <<input, frame>>

CallParseComment ==
    /\ CanCall("parseComment")
    /\ p' = parseComment(p)
    /\ call' = Called("parseComment", p, FALSE)
    /\ UNCHANGED <<input, frame>>

CallParseInvalid ==
    /\ CanCall("parseInvalid")
    /\ p' = parseInvalid(p)
    /\ call' = Called("parseInvalid", p, FALSE)
    /\ UNCHANGED <<input, frame>>

CallParseSection ==
    /\ CanCall("parseSection")
    /\ p' = parseSection(p)
    /\ call' = Called("parseSection", p, FALSE)
    /\ UNCHANGED <<input, frame>>

CallParseSuffix ==
    /\ CanCall("parseSuffix")
    /\ p' = parseSuffix(p)
    /\ call' = Called("parseSuffix", p, FALSE)
    /\ UNCHANGED <<input, frame>>

CallParseSuffixBlock ==
    /\ CanCall("parseSuffixBlock")
    /\ p' = parseSuffixBlock(p)
    /\ call' = Called("parseSuffixBlock", p, FALSE)
    /\ UNCHANGED <<input, frame>>

CallParseGroup ==
    /\ CanCall("parseGroup")
    /\ p' = parseGroup(p, frame.section)
    /\ call' = Called("parseGroup", p, FALSE)
    /\ UNCHANGED <<input, frame>>

NextHandlers ==
    \/ CallParseWhitespace
    \/ CallParseComment
    \/ CallParseInvalid
    \/ CallParseSection
    \/ CallParseSuffix
    \/ CallParseSuffixBlock
    \/ CallParseGroup

SpecHandlers == InitHandlers /\ [][NextHandlers]_vars

(***************************************************************************)
(* The Source operations on their own.  input is the line buffer of a      *)
(* Source, p the memory, call the last operation ([fn, pre, i, o, n]).     *)
(* Ranges are taken from the front of the buffer, and a taken range is     *)
(* extended by append with any Source: one cut from the same buffer, or    *)
(* one with lines of its own (Other) and any line offset.                  *)
(***************************************************************************)
SourceLines == {"a", "b"}

Other == <<"x">>

\* The Sources over Other.
OtherSources ==
    UNION {{SourceAt(2, a, n, Len(Other) - a, k) :
               n \in 0..(Len(Other) - a), k \in 0..MaxLines} :
           a \in 0..Len(Other)}

InitSource ==
    /\ input \in SeqsUpTo(SourceLines, MaxLines)
    /\ frame = Frame("source", NoOpen, NoOpen)
    /\ p = [heap |-> <<input, Other>>,
            rem |-> SourceAt(1, 0, Len(input), Len(input), 0),
            held |-> <<>>, panic |-> ""]
    /\ call = [fn |-> "none", pre |-> p, i |-> 0, o |-> p.rem, n |-> 0,
               line |-> ""]

\* s.takeN(n) on the unconsumed range.
DoTakeN ==
    /\ p.panic = "" /\ Len(p.held) < MaxHeld
    /\ \E n \in 0..(p.rem.len + 1) :
           /\ p' = memTakeN(p, n)
           /\ call' = [fn |-> "takeN", pre |-> p, i |-> 0, o |-> p.rem, n |-> n,
                        line |-> ""]
    /\ UNCHANGED <<input, frame>>

\* held[i].append(o)
DoAppend ==
    /\ p.panic = "" /\ Len(p.heap) < MaxArrays
    /\ \E i \in 1..Len(p.held) :
       \E o \in {p.rem} \cup {p.held[j] : j \in 1..Len(p.held)} \cup OtherSources :
           /\ p' = memAppend(p, i, o)
           /\ call' = [fn |-> "append", pre |-> p, i |-> i, o |-> o, n |-> 0,
                        line |-> ""]
    /\ UNCHANGED <<input, frame>>

\* The predicates given to takeWhile and takeWhileNot: being the line c,
\* for the lines of the buffer and one that is not in it.
PredLines == SourceLines \cup {"z"}

IsLine(c) == [l \in STRING |-> l = c]

\* s.takeWhile(fn) on the unconsumed range.
DoTakeWhile ==
    /\ p.panic = "" /\ Len(p.held) < MaxHeld
    /\ \E c \in PredLines :
           /\ p' = memTakeWhile(p, IsLine(c))
           /\ call' = [fn |-> "takeWhile", pre |-> p, i |-> 0, o |-> p.rem,
                        n |-> 0, line |-> c]
    /\ UNCHANGED <<input, frame>>

\* s.takeWhileNot(fn) on the unconsumed range.
DoTakeWhileNot ==
    /\ p.panic = "" /\ Len(p.held) < MaxHeld
    /\ \E c \in PredLines :
           /\ p' = memTakeWhileNot(p, IsLine(c))
           /\ call' = [fn |-> "takeWhileNot", pre |-> p, i |-> 0, o |-> p.rem,
                        n |-> 0, line |-> c]
    /\ UNCHANGED <<input, frame>>

NextSource ==
    \/ DoTakeN
    \/ DoAppend
    \/ DoTakeWhile
    \/ DoTakeWhileNot

SpecSource == InitSource /\ [][NextSource]_vars

(***************************************************************************)
(* The normalizer on its own.  input is the decoded text, p the lines and  *)
(* errors normalizeToUTF8Lines returns for it.                             *)
(***************************************************************************)
TextChars == {"a", " ", "\t", "\r", "\n", NBSPChar, RuneError}

RECURSIVE StringsUpTo(_, _)
StringsUpTo(A, n) ==
    IF n = 0 THEN {""}
    ELSE LET T == StringsUpTo(A, n - 1)
         IN T \cup {t \o c : t \in {u \in T : Len(u) = n - 1}, c \in A}

InitNormalize ==
    /\ input \in StringsUpTo(TextChars, MaxChars)
    /\ frame = Frame("normalize", NoOpen, NoOpen)
    /\ p = [lines |-> <<>>, errs |-> <<>>]
    /\ call = [fn |-> "none"]

DoNormalize ==
    /\ call.fn = "none"
    /\ p' = normalizeLines(input)
    /\ call' = [fn |-> "normalizeToUTF8Lines"]
    /\ UNCHANGED <<input, frame>>

NextNormalize == DoNormalize

SpecNormalize == InitNormalize /\ [][NextNormalize]_vars

(***************************************************************************)
(* guessUTFVariant on its own.  input is the byte sequence, p the guess.   *)
(* The inputs are ASCII text in one or several encodings: single bytes     *)
(* (UTF-8), then characters with the zero byte first (UTF-16BE), then      *)
(* characters with the zero byte last (UTF-16LE), then characters with the *)
(* zero byte first again.                                                  *)
(***************************************************************************)
\* n copies of the bytes bs in a row.
Rep(bs, n) == [i \in 1..(n * Len(bs)) |-> bs[((i - 1) % Len(bs)) + 1]]

\* Numbers of leading single bytes: few, and such that the zeros of the
\* characters that follow fall on either side of checkLimit.
LeadingBytes == {0, 1, 160, 161, 162, 163}

GuessInput(lead, be, le, more) ==
    Rep(<<97>>, lead) \o Rep(<<0, 97>>, be) \o Rep(<<97, 0>>, le)
        \o Rep(<<0, 97>>, more)

InitGuess ==
    /\ \E lead \in LeadingBytes, be \in 0..MaxPairs, le \in 0..MaxPairs,
          more \in {0, MaxPairs} :
           input = GuessInput(lead, be, le, more)
    /\ frame = Frame("guess", NoOpen, NoOpen)
    /\ p = [enc |-> ""]
    /\ call = [fn |-> "none"]

DoGuess ==
    /\ call.fn = "none"
    /\ p' = [enc |-> guessUTFVariant(input)]
    /\ call' = [fn |-> "guessUTFVariant"]
    /\ UNCHANGED <<input, frame>>

NextGuess == DoGuess

SpecGuess == InitGuess /\ [][NextGuess]_vars

(***************************************************************************)
(* normalizeToUTF8Lines on bytes.  input is the byte sequence, p the lines *)
(* and errors returned.  The inputs are messages of several shapes (the    *)
(* letter a alone, or with a line feed, spaces, a tab or a carriage return *)
(* among the letters), in one of the three encodings, behind nothing,      *)
(* behind any of the three byte order marks, and with or without one more  *)
(* mark of the message's own encoding before its first character.          *)
(***************************************************************************)
Encodings == {"UTF-8", "UTF-16BE", "UTF-16LE"}

\* The byte order mark of encoding enc.
MarkOf(enc) ==
    CASE enc = "UTF-8" -> bomUTF8
      [] enc = "UTF-16BE" -> bomUTF16BE
      [] enc = "UTF-16LE" -> bomUTF16LE

\* The shapes of a message: letters only; a line feed in last place; a
\* space in first and a tab in last place; a carriage return and a line
\* feed in the middle, the line after them starting with a space.
Shapes == {"letters", "lines", "spaced", "dos"}

\* The code points of the message of n characters of a shape.
MessageCodes(n, shape) ==
    [i \in 1..n |->
        CASE shape = "lines" /\ i = n -> 10
          [] shape = "spaced" /\ i = 1 -> 32
          [] shape = "spaced" /\ i = n /\ i > 1 -> 9
          [] shape = "dos" /\ i = 2 -> 13
          [] shape = "dos" /\ i = 3 -> 10
          [] shape = "dos" /\ i = 4 -> 32
          [] OTHER -> 97]

\* The bytes of the characters with the code points cs (all below 128) in
\* encoding enc.
EncodeCodes(enc, cs) ==
    IF enc = "UTF-8" THEN cs
    ELSE [i \in 1..(2 * Len(cs)) |->
             IF (i % 2 = 1) = (enc = "UTF-16LE") THEN cs[(i + 1) \div 2] ELSE 0]

\* The message of n characters of a shape, in encoding enc.
MessageBytes(enc, n, shape) == EncodeCodes(enc, MessageCodes(n, shape))

Leads == {<<>>, bomUTF8, bomUTF16BE, bomUTF16LE}

InitEncoding ==
    /\ \E lead \in Leads, enc \in Encodings, again \in BOOLEAN,
          n \in 0..MaxMessage, shape \in Shapes :
           input = lead \o (IF again THEN MarkOf(enc) ELSE <<>>)
                        \o MessageBytes(enc, n, shape)
    /\ frame = Frame("encoding", NoOpen, NoOpen)
    /\ p = [enc |-> "", lines |-> <<>>, errs |-> <<>>]
    /\ call = [fn |-> "none"]

DoNormalizeBytes ==
    /\ call.fn = "none"
    /\ p' = normalizeToUTF8Lines(input)
    /\ call' = [fn |-> "normalizeToUTF8Lines"]
    /\ UNCHANGED <<input, frame>>

NextEncoding == DoNormalizeBytes

SpecEncoding == InitEncoding /\ [][NextEncoding]_vars

(***************************************************************************)
(* Properties.                                                             *)
(***************************************************************************)

\* Parse has returned a File (it did not panic).
ParseReturned == call.fn = "Parse" /\ p.panic = ""

\* The last call was a call of one of the functions the switches select.
HandlerCall == call.fn \notin {"none", "Parse", "parseWhitespace"}

RECURSIVE ConcatLines(_)
ConcatLines(blocks) ==
    IF Len(blocks) = 0 THEN <<>>
    ELSE blocks[1].src.lines \o ConcatLines(Tail(blocks))

\* Each block starts where the one before it ends, the first one at line at.
RECURSIVE Contiguous(_, _)
Contiguous(blocks, at) ==
    \/ Len(blocks) = 0
    \/ /\ blocks[1].src.lineOffset = at
       /\ Contiguous(Tail(blocks), at + Len(blocks[1].src.lines))

KindCount(blocks, kind) ==
    Cardinality({i \in 1..Len(blocks) : blocks[i].kind = kind})

ErrCount(errs, kind) ==
    Cardinality({i \in 1..Len(errs) : errs[i].kind = kind})

StructuralKinds ==
    {"UnknownSectionMarker", "UnterminatedSectionMarker",
     "UnclosedSectionError", "NestedSectionError", "UnstartedSectionError",
     "MismatchedSectionError", "MismatchedGroupError", "UnclosedGroupError",
     "NestedGroupError", "SectionInSuffixBlock"}

SectionEndA == "// ===END A==="

SectionEndB == "// ===END B==="

\* C1: Parse returns a File on every input, without aborting: it reaches no
\* panic statement, no first()/takeOne() on an empty range and no
\* non-adjacent append.
C1_ParseNeverPanics == call.fn = "Parse" => p.panic = ""

\* C2: the top-level blocks of the returned File are adjacent, start at line
\* 0 and their lines, concatenated in order, are the normalized line buffer.
C2_LosslessCoverage ==
    ParseReturned =>
        /\ Contiguous(p.blocks, 0)
        /\ ConcatLines(p.blocks) = input

\* C3: the loops consume the input line by line, so that the remaining
\* range shrinks until it is empty: when Parse returns, the remaining range
\* is empty.
C3_LoopsConsumeUntilEmpty == ParseReturned => empty(Src(p))

\* C4: in a children list no two consecutive blocks are both InvalidSource.
C4_NoAdjacentInvalid ==
    \A i \in 1..(Len(p.blocks) - 1) :
        ~(p.blocks[i].kind = "InvalidSource"
          /\ p.blocks[i + 1].kind = "InvalidSource")

\* The input is BEGIN A, a body without section markers, END A.
BalancedInput ==
    /\ Len(input) >= 2
    /\ input[1] = SectionA /\ input[Len(input)] = SectionEndA
    /\ \A i \in 2..(Len(input) - 1) : ~isAnySectionMarker(input[i])

\* C5: BEGIN A, a body without section markers, END A yields exactly one
\* Section named A and no structural diagnostic.
C5_SectionBalance ==
    (BalancedInput /\ ParseReturned) =>
        /\ KindCount(p.blocks, "Section") = 1
        /\ \E i \in 1..Len(p.blocks) :
               p.blocks[i].kind = "Section" /\ p.blocks[i].name = "A"
        /\ \A i \in 1..Len(p.errs) : p.errs[i].kind \notin StructuralKinds

\* The input is BEGIN A followed by lines none of which is END A.
UnclosedInput ==
    /\ Len(input) >= 1 /\ input[1] = SectionA
    /\ \A i \in 2..Len(input) : ~isAnySectionMarker(input[i])

\* C6: a BEGIN A marker with no END A before the end of the input yields a
\* Section A holding all remaining lines and exactly one
\* UnclosedSectionError.
C6_UnclosedSection ==
    (UnclosedInput /\ ParseReturned) =>
        /\ ErrCount(p.errs, "UnclosedSectionError") = 1
        /\ \E i \in 1..Len(p.blocks) :
               /\ p.blocks[i].kind = "Section" /\ p.blocks[i].name = "A"
               /\ p.blocks[i].src = Source(input, 0)

\* The input opens section A and meets marker line m before any other
\* section marker.
MeetsInSectionA(m) ==
    /\ Len(input) >= 2 /\ input[1] = SectionA
    /\ \E i \in 2..Len(input) :
           /\ input[i] = m
           /\ \A j \in 2..(i - 1) : ~isAnySectionMarker(input[j])

\* C7: while section A is open, END B produces a MismatchedSectionError
\* carrying end name B and section A.
C7_MismatchedEnd ==
    (MeetsInSectionA(SectionEndB) /\ ParseReturned) =>
        \E i \in 1..Len(p.errs) :
            /\ p.errs[i].kind = "MismatchedSectionError"
            /\ p.errs[i].name = "B" /\ p.errs[i].open.name = "A"

\* C8: while section A is open, a well-formed BEGIN marker produces a
\* NestedSectionError carrying its name and section A.
C8_NestedBegin ==
    (MeetsInSectionA(SectionA) /\ ParseReturned) =>
        \E i \in 1..Len(p.errs) :
            /\ p.errs[i].kind = "NestedSectionError"
            /\ p.errs[i].name = "A" /\ p.errs[i].open.name = "A"

\* The first line of the range the last call ran on, as a Source.
CalledOn == first(Src(call.pre))

\* The diagnostic the precedence of C9 selects for marker line l ("" for a
\* well-formed BEGIN marker).
C9_Selected(l) ==
    LET m == parseSectionMarker(l)
    IN IF m.name = "" \/ m.kind \notin {"BEGIN", "END"}
       THEN Err("UnknownSectionMarker", CalledOn, "", NoOpen)
       ELSE IF m.kind = "END"
       THEN Err("UnstartedSectionError", CalledOn, m.name, NoOpen)
       ELSE IF m.missingTerminator
       THEN Err("UnterminatedSectionMarker", CalledOn, "", NoOpen)
       ELSE Err("", CalledOn, "", NoOpen)

\* C9: parseSection on a marker line that is not a well-formed BEGIN reports
\* exactly one diagnostic, chosen by the precedence unknown > unstarted >
\* unterminated, turns the line into one InvalidSource block, consumes that
\* line only and opens no section.
C9_OneDiagnosticByPrecedence ==
    (call.fn = "parseSection" /\ C9_Selected(Text(CalledOn)).kind # "") =>
        /\ p.panic = ""
        /\ p.errs = Append(call.pre.errs, C9_Selected(Text(CalledOn)))
        /\ p.blocks = Append(call.pre.blocks, InvalidSource(CalledOn))
        /\ Src(p) = takeOne(Src(call.pre)).rest

\* An END marker without its terminator has been reported as unstarted only.
C9_Witness ==
    /\ call.fn = "parseSection" /\ Text(CalledOn) = "// ===END A"
    /\ Len(p.errs) = 1 /\ p.errs[1].kind = "UnstartedSectionError"
    /\ p.errs[1].name = "A"
    /\ Len(p.blocks) = 1 /\ p.blocks[1].kind = "InvalidSource"

\* The last call ran parseSuffix on an exception line that directly follows
\* a one-line Suffix and whose labels are that suffix's labels with one
\* extra leading label.
C10_Case ==
    /\ call.fn = "parseSuffix" /\ HasPrefix(Text(CalledOn), "!")
    /\ HasLastBlock(call.pre)
    /\ lastBlock(call.pre).kind = "Suffix"
    /\ Len(lastBlock(call.pre).src.lines) = 1
    /\ LET labels == Split(SubSeq(Text(CalledOn), 2, Len(Text(CalledOn))), ".")
       IN /\ Len(labels) = Len(lastBlock(call.pre).suffix) + 1
          /\ labels[1] # "*"
          /\ Tail(labels) = lastBlock(call.pre).suffix

\* C10: a suffix line directly followed by an exception line whose labels
\* are the suffix's with one extra leading label yields one Suffix block
\* with exactly that exception, spanning both lines, and no diagnostic.
C10_ExceptionAccepted ==
    C10_Case =>
        LET prev == lastBlock(call.pre)
            n == Len(call.pre.blocks)
            text == Text(CalledOn)
        IN /\ p.panic = ""
           /\ p.errs = call.pre.errs
           /\ Len(p.blocks) = n
           /\ SubSeq(p.blocks, 1, n - 1) = SubSeq(call.pre.blocks, 1, n - 1)
           /\ p.blocks[n] =
                  Suffix(Source(prev.src.lines \o <<text>>, prev.src.lineOffset),
                         prev.suffix, prev.wildcard,
                         <<Split(SubSeq(text, 2, Len(text)), ".")>>)

\* a.b followed by !c.a.b has become one two-line Suffix with one exception.
C10_Witness ==
    /\ C10_Case
    /\ p.blocks[Len(p.blocks)].src.lines = <<"a.b", "!c.a.b">>
    /\ p.blocks[Len(p.blocks)].suffix = <<"a", "b">>
    /\ p.blocks[Len(p.blocks)].exceptions = <<<<"c", "a", "b">>>>
    /\ p.errs = <<>>

\* The last call ran parseSuffix on an exception line that is not itself a
\* wildcard.
ExceptionCall ==
    /\ call.fn = "parseSuffix" /\ HasPrefix(Text(CalledOn), "!")
    /\ ~HasPrefix(Text(CalledOn), "!*.")

\* The labels of the exception line the last call ran on.
ExceptionLabels == Split(SubSeq(Text(CalledOn), 2, Len(Text(CalledOn))), ".")

\* The last call rejected its line: it reported err, turned the line into
\* one InvalidSource block and left every earlier block as it was.
Rejected(err) ==
    /\ p.panic = ""
    /\ p.errs = Append(call.pre.errs, err)
    /\ p.blocks = Append(call.pre.blocks, InvalidSource(CalledOn))
    /\ Src(p) = takeOne(Src(call.pre)).rest

\* C11: a non-wildcard exception line is rejected with
\* ExceptionNotDirectlyFollowingBaseError whenever the most recently emitted
\* block of the current suffix block is not a Suffix (there is none, or it
\* is of another kind).
C11_NotDirectlyFollowingBase ==
    (/\ ExceptionCall
     /\ \/ Len(call.pre.blocks) = 0
        \/ call.pre.blocks[Len(call.pre.blocks)].kind # "Suffix") =>
        Rejected(Err("ExceptionNotDirectlyFollowingBaseError", CalledOn, "", NoOpen))

\* Two exception lines open a suffix block: the first has no preceding
\* entry, the second follows the InvalidSource the first became, and both
\* were rejected as not directly following a base.
C11_Witness ==
    /\ ExceptionCall /\ frame.kind = "suffixes"
    /\ Len(call.pre.blocks) = 1 /\ call.pre.blocks[1].kind = "InvalidSource"
    /\ Len(p.errs) = 2
    /\ \A i \in 1..2 : p.errs[i].kind = "ExceptionNotDirectlyFollowingBaseError"
    /\ Len(p.blocks) = 2 /\ p.blocks[2].kind = "InvalidSource"

\* The last call ran parseSuffix on a non-wildcard exception line whose
\* preceding entry is a Suffix.
FollowsSuffix ==
    /\ ExceptionCall
    /\ Len(call.pre.blocks) > 0
    /\ call.pre.blocks[Len(call.pre.blocks)].kind = "Suffix"

\* The Suffix the exception line of the last call follows.
Base == call.pre.blocks[Len(call.pre.blocks)]

\* labels has exactly one more label than parent and ends with parent.
DirectChild(labels, parent) ==
    /\ Len(labels) = Len(parent) + 1
    /\ \A i \in 1..Len(parent) : labels[i + 1] = parent[i]

\* C12: an exception line directly following a Suffix is rejected with
\* InvalidExceptionError exactly when its labels are not the base's labels
\* with one extra leading label.
C12_InvalidException ==
    FollowsSuffix =>
        /\ ~DirectChild(ExceptionLabels, Base.suffix) =>
               Rejected(Err("InvalidExceptionError", CalledOn, "",
                            Open(Text(Base.src), Base.src)))
        /\ DirectChild(ExceptionLabels, Base.suffix) =>
               \A i \in (Len(call.pre.errs) + 1)..Len(p.errs) :
                   p.errs[i].kind # "InvalidExceptionError"

\* !c.d after a.b: the right number of labels under another parent.
C12_Witness ==
    /\ FollowsSuffix /\ Text(CalledOn) = "!c.d"
    /\ Base.suffix = <<"a", "b">>
    /\ Len(p.errs) = 1 /\ p.errs[1].kind = "InvalidExceptionError"
    /\ p.blocks[Len(p.blocks)].kind = "InvalidSource"

\* The exception line of the last call was folded into its base: no new
\* diagnostic, no new block, the base one line and one exception longer.
Accepted ==
    LET n == Len(call.pre.blocks)
    IN /\ p.panic = ""
       /\ p.errs = call.pre.errs
       /\ Len(p.blocks) = n
       /\ SubSeq(p.blocks, 1, n - 1) = SubSeq(call.pre.blocks, 1, n - 1)
       /\ p.blocks[n] =
              Suffix(Source(Base.src.lines \o <<Text(CalledOn)>>, Base.src.lineOffset),
                     Base.suffix, Base.wildcard,
                     Append(Base.exceptions, ExceptionLabels))
       /\ Src(p) = takeOne(Src(call.pre)).rest

\* labels is already recorded for the base.
Recorded(labels) == \E i \in 1..Len(Base.exceptions) : Base.exceptions[i] = labels

\* C13: a valid exception line is accepted with no diagnostic the first time
\* it follows its base and rejected with DuplicateExceptionError when the
\* base already records it; no Suffix ever lists the same exception twice.
C13_DuplicateException ==
    /\ (FollowsSuffix /\ DirectChild(ExceptionLabels, Base.suffix)) =>
           IF Recorded(ExceptionLabels)
           THEN Rejected(Err("DuplicateExceptionError", CalledOn, "", NoOpen))
           ELSE Accepted
    /\ \A k \in 1..Len(p.blocks) :
           p.blocks[k].kind = "Suffix" =>
               \A i, j \in 1..Len(p.blocks[k].exceptions) :
                   p.blocks[k].exceptions[i] = p.blocks[k].exceptions[j] => i = j

\* a.b, !c.a.b, !c.a.b: the first exception was accepted in silence, the
\* second is the only line reported, as a duplicate.
C13_Witness ==
    /\ FollowsSuffix /\ Text(CalledOn) = "!c.a.b"
    /\ Base.src.lines = <<"a.b", "!c.a.b">>
    /\ Base.exceptions = <<<<"c", "a", "b">>>>
    /\ call.pre.errs = <<>>
    /\ Len(p.errs) = 1 /\ p.errs[1].kind = "DuplicateExceptionError"
    /\ p.blocks[1].exceptions = <<<<"c", "a", "b">>>>

\* The diagnostic the order of C14 selects for the exception line of the
\* last call, "" when the line passes every check.
C14_Selected ==
    LET n == Len(call.pre.blocks)
    IN IF HasPrefix(Text(CalledOn), "!*.")
       THEN "ExceptionAndWildcardSuffixError"
       ELSE IF n = 0 \/ call.pre.blocks[n].kind # "Suffix"
       THEN "ExceptionNotDirectlyFollowingBaseError"
       ELSE IF ~DirectChild(ExceptionLabels, Base.suffix)
       THEN "InvalidExceptionError"
       ELSE IF Recorded(ExceptionLabels)
       THEN "DuplicateExceptionError"
       ELSE ""

\* C14: a rejected exception line produces exactly one diagnostic, the first
\* that fails in the order wildcard, no base, not a direct child, duplicate;
\* a line that passes all four produces none.
C14_OneDiagnosticInOrder ==
    (call.fn = "parseSuffix" /\ HasPrefix(Text(CalledOn), "!")) =>
        /\ p.panic = ""
        /\ IF C14_Selected = ""
           THEN p.errs = call.pre.errs
           ELSE /\ Len(p.errs) = Len(call.pre.errs) + 1
                /\ SubSeq(p.errs, 1, Len(call.pre.errs)) = call.pre.errs
                /\ p.errs[Len(p.errs)].kind = C14_Selected
                /\ p.errs[Len(p.errs)].src = CalledOn
                /\ p.blocks = Append(call.pre.blocks, InvalidSource(CalledOn))

\* A wildcard exception opens a suffix block: it fails the wildcard test and
\* the test of the base, and only the first is reported.
C14_Witness ==
    /\ call.fn = "parseSuffix" /\ Text(CalledOn) = "!*.a.b"
    /\ Len(call.pre.blocks) = 0
    /\ Len(p.errs) = 1 /\ p.errs[1].kind = "ExceptionAndWildcardSuffixError"
    /\ Len(p.blocks) = 1 /\ p.blocks[1].kind = "InvalidSource"

\* The last call ran parseSuffix on a line that is not an exception.
SuffixCall == call.fn = "parseSuffix" /\ ~HasPrefix(Text(CalledOn), "!")

\* C15: a suffix line with a leading "*." yields a Suffix with Wildcard set
\* whose labels are those after the "*." (no "*" label); a line without it
\* yields Wildcard unset and all its dot-separated labels.
C15_WildcardStripped ==
    SuffixCall =>
        LET text == Text(CalledOn)
            b == p.blocks[Len(p.blocks)]
        IN /\ p.panic = "" /\ Len(p.blocks) = Len(call.pre.blocks) + 1
           /\ b.kind = "Suffix"
           /\ IF HasPrefix(text, "*.")
              THEN /\ b.wildcard
                   /\ b.suffix = Split(SubSeq(text, 3, Len(text)), ".")
                   /\ \A i \in 1..Len(b.suffix) : b.suffix[i] # "*"
              ELSE /\ ~b.wildcard
                   /\ b.suffix = Split(text, ".")

\* The parser parseSection was called on, once it has taken the marker and
\* the body of the section from its range.
SectionParent == sectionEnter(NewParser(Source(input, 0)))

\* C16: the diagnostics raised inside a section body are in the error list
\* of the parser parseSection returns to, in the order raised, and a call
\* that raises a diagnostic also emits a block covering the offending line.
C16_DiagnosticsNotLost ==
    /\ (frame.kind = "section" /\ p.panic = "") =>
           LET q == sectionReturn(SectionParent, p)
           IN /\ Len(q.errs) >= Len(p.errs)
              /\ SubSeq(q.errs, Len(q.errs) - Len(p.errs) + 1, Len(q.errs))
                     = p.errs
    /\ (HandlerCall /\ p.panic = "" /\ Len(p.errs) > Len(call.pre.errs)) =>
           /\ Len(p.blocks) = Len(call.pre.blocks) + 1
           /\ LET b == p.blocks[Len(p.blocks)]
              IN /\ b.src.lineOffset <= CalledOn.lineOffset
                 /\ CalledOn.lineOffset < b.src.lineOffset + Len(b.src.lines)

\* C17: s.append(o) succeeds exactly when o.lineOffset is s.lineOffset plus
\* the number of lines of s and panics otherwise; after it s keeps its
\* lineOffset and holds its old lines followed by the lines of o.
C17_AppendAdjacency ==
    call.fn = "append" =>
        LET s == SourceOf(call.pre.heap, call.pre.held[call.i])
            o == SourceOf(call.pre.heap, call.o)
        IN IF o.lineOffset = s.lineOffset + Len(s.lines)
           THEN /\ p.panic = ""
                /\ SourceOf(p.heap, p.held[call.i]).lineOffset = s.lineOffset
                /\ SourceOf(p.heap, p.held[call.i]).lines = s.lines \o o.lines
           ELSE p.panic # ""

\* A two-line range has been extended by the line that follows it.
C17_Witness ==
    /\ call.fn = "append" /\ p.panic = ""
    /\ call.pre.held[call.i].len = 2 /\ call.o.len = 1
    /\ call.o.lineOffset = call.pre.held[call.i].lineOffset + 2
    /\ Len(SourceOf(p.heap, p.held[call.i]).lines) = 3

\* C18: append changes neither the line buffer nor any other array, and
\* every other Source (the unconsumed range, the ranges handed out before,
\* the Source appended) has the offset and the lines it had.
C18_AppendAliasing ==
    call.fn = "append" =>
        /\ \A a \in 1..Len(call.pre.heap) : p.heap[a] = call.pre.heap[a]
        /\ p.rem = call.pre.rem
        /\ SourceOf(p.heap, p.rem) = SourceOf(call.pre.heap, call.pre.rem)
        /\ \A j \in 1..Len(call.pre.held) :
               j # call.i =>
                   /\ p.held[j] = call.pre.held[j]
                   /\ SourceOf(p.heap, p.held[j])
                          = SourceOf(call.pre.heap, call.pre.held[j])
        /\ SourceOf(p.heap, call.o) = SourceOf(call.pre.heap, call.o)

\* A range whose slice has room for the lines after it, which are still
\* unconsumed, has been extended by a Source with lines of its own, and the
\* unconsumed lines are what they were.
C18_Witness ==
    /\ call.fn = "append" /\ p.panic = ""
    /\ call.pre.held[call.i].cap > call.pre.held[call.i].len
    /\ call.o.arr = 2 /\ call.o.len > 0
    /\ p.rem.len > 0
    /\ SourceOf(p.heap, p.rem).lines
           = SubSeq(input, p.rem.lineOffset + 1, Len(input))
    /\ p.held[call.i].len = call.pre.held[call.i].len + call.o.len

\* C19: every line the normalizer returns contains no CR, and neither
\* starts nor ends with whitespace.
C19_LinesClean ==
    call.fn = "normalizeToUTF8Lines" =>
        \A i \in 1..Len(p.lines) :
            /\ ~ContainsRune(p.lines[i], "\r")
            /\ Len(p.lines[i]) > 0 =>
                   /\ ~IsSpace(SubSeq(p.lines[i], 1, 1))
                   /\ ~IsSpace(SubSeq(p.lines[i], Len(p.lines[i]), Len(p.lines[i])))

\* The offsets of the zero bytes among the first 200 bytes of the input.
ZeroOffsets ==
    {i \in 0..199 : i < Len(input) /\ input[i + 1] = 0}

\* The first 20 of the offsets Z.
FirstTwenty(Z) == {k \in Z : Cardinality({j \in Z : j <= k}) <= 20}

\* The encoding the thresholds of C20 give for the zero offsets S.
ByBias(S) ==
    IF Cardinality({j \in S : j % 2 = 0}) > 15 THEN "UTF-16BE"
    ELSE IF Cardinality({j \in S : j % 2 = 1}) > 15 THEN "UTF-16LE"
    ELSE "UTF-8"

\* The guess C20 describes for an input whose first 200 bytes have their
\* zeros at the offsets Z.
GuessFor(Z) == IF Cardinality(Z) < 20 THEN "UTF-8" ELSE ByBias(FirstTwenty(Z))

\* C20: guessUTFVariant decides on the first 200 bytes, when it counts their
\* 20th zero byte: UTF-16BE if more than 15 of the zeros up to there are at
\* even offsets, else UTF-16LE if more than 15 are at odd offsets, else
\* UTF-8; with fewer than 20 zero bytes it answers UTF-8.
C20_GuessThresholds ==
    call.fn = "guessUTFVariant" => p.enc = GuessFor(ZeroOffsets)

\* An input of more than 200 bytes with more than 15 zeros at even offsets
\* in all, but only 15 of them among the first 20 zeros of its first 200
\* bytes: the guess was UTF-8.
C20_Witness ==
    /\ call.fn = "guessUTFVariant" /\ p.enc = "UTF-8"
    /\ Len(input) > 200
    /\ Cardinality({i \in 0..(Len(input) - 1) : input[i + 1] = 0 /\ i % 2 = 0}) > 15
    /\ Cardinality(ZeroOffsets) >= 20
    /\ Cardinality({j \in FirstTwenty(ZeroOffsets) : j % 2 = 0}) = 15

\* normalizeToUTF8Lines has returned for the bytes of input.
Normalized == frame.kind = "encoding" /\ call.fn = "normalizeToUTF8Lines"

\* bs is a message of ASCII characters other than NUL, each written as two
\* bytes with the zero byte last, and nothing before it.
IsASCIIAsUTF16LE(bs) ==
    /\ Len(bs) > 0 /\ Len(bs) % 2 = 0
    /\ \A i \in 1..Len(bs) :
           IF i % 2 = 1 THEN bs[i] \in 1..127 ELSE bs[i] = 0

\* e is an error about the encoding.
IsEncodingErr(e) == e.kind \in {"InvalidEncodingError", "UTF8BOMError"}

\* The errors about the encoding among errs.
EncodingErrs(errs) == SelectSeq(errs, IsEncodingErr)

\* The input was decoded as UTF-16LE on a guess, that being the one thing
\* reported about its encoding.
GuessedUTF16LE ==
    /\ p.enc = "UTF-16LE"
    /\ EncodingErrs(p.errs)
           = <<EncodingErr("InvalidEncodingError", "UTF-16LE (guessed)")>>

\* C21, as stated: every ASCII message without NUL that is given as
\* UTF-16LE without a byte order mark is decoded as UTF-16LE, with exactly
\* InvalidEncodingError{"UTF-16LE (guessed)"} reported, whatever its length.
C21_AnyLengthDetected ==
    (Normalized /\ IsASCIIAsUTF16LE(input)) => GuessedUTF16LE

\* C21, amended: every ASCII message without NUL of at least
\* decisionThreshold characters that is given as UTF-16LE without a byte
\* order mark is decoded as UTF-16LE, with exactly
\* InvalidEncodingError{"UTF-16LE (guessed)"} reported about the encoding.
C21_LongMessageDetected ==
    (Normalized /\ IsASCIIAsUTF16LE(input)
                /\ Len(input) >= 2 * decisionThreshold)
        => GuessedUTF16LE

\* A message of exactly decisionThreshold characters, white space among
\* them, was given as UTF-16LE without a mark and decoded on a guess.
C21_Witness ==
    /\ Normalized /\ IsASCIIAsUTF16LE(input)
    /\ Len(input) = 2 * decisionThreshold
    /\ input[1] = 32
    /\ GuessedUTF16LE

\* The one error about the encoding that the mark at the start of bs calls
\* for.
MarkErrs(bs) ==
    IF BytesHasPrefix(bs, bomUTF8) THEN <<EncodingErr("UTF8BOMError", "")>>
    ELSE IF BytesHasPrefix(bs, bomUTF16BE)
    THEN <<EncodingErr("InvalidEncodingError", "UTF-16BE")>>
    ELSE <<EncodingErr("InvalidEncodingError", "UTF-16LE")>>

\* bs starts with one of the three byte order marks.
HasMark(bs) ==
    \/ BytesHasPrefix(bs, bomUTF8)
    \/ BytesHasPrefix(bs, bomUTF16BE)
    \/ BytesHasPrefix(bs, bomUTF16LE)

\* The errors about the encoding are those of the mark the input starts
\* with, whatever the zero bytes that follow; the heuristic is heard only
\* when there is no mark.
C22_MarkDecides ==
    Normalized =>
        EncodingErrs(p.errs) =
            IF HasMark(input) THEN MarkErrs(input)
            ELSE IF guessUTFVariant(input) = "UTF-8" THEN <<>>
            ELSE <<EncodingErr("InvalidEncodingError",
                               guessUTFVariant(input) \o " (guessed)")>>

\* line holds the bytes of a byte order mark (those of U+FEFF in UTF-8; a
\* line of valid UTF-8 cannot hold the bytes FE or FF of the other two).
HoldsMark(line) == ContainsRune(line, BOMChar)

\* C22: an input that starts with the UTF-8 mark yields exactly one
\* UTF8BOMError and no InvalidEncodingError; one that starts with the
\* UTF-16BE or UTF-16LE mark yields exactly one InvalidEncodingError naming
\* that encoding without "(guessed)"; the zero-byte heuristic decides only
\* when there is no mark; and no line returned holds the bytes of a mark.
C22_BOMSelection ==
    /\ C22_MarkDecides
    /\ Normalized => \A i \in 1..Len(p.lines) : ~HoldsMark(p.lines[i])

\* The kinds of block a node of kind parent may have as children; File is
\* the top level.
ChildKinds(parent) ==
    CASE parent = "File" -> {"Section", "Comment", "BlankLines", "InvalidSource"}
      [] parent = "Section" -> {"Group", "Suffixes", "BlankLines", "InvalidSource"}
      [] parent = "Group" -> {"Suffixes", "BlankLines", "InvalidSource"}
      [] parent = "Suffixes" -> {"Comment", "Suffix"}
      [] OTHER -> {}

\* blocks, and all below them, may be the children of a node of kind parent.
RECURSIVE WellShaped(_, _)
WellShaped(parent, blocks) ==
    \A i \in 1..Len(blocks) :
        /\ blocks[i].kind \in ChildKinds(parent)
        /\ WellShaped(blocks[i].kind, blocks[i].blocks)

\* The parser of the section body once the deferred function of
\* parseSuffixBlock has run on the frame p of the suffix block: its last
\* block is the Suffixes node, the blocks of the frame its children.
SuffixesBuilt ==
    suffixBlockLeave(p, suffixesOf(parseWhitespace(SubParser(input)).p))

\* C23: the tree the parser builds has the shape of the grammar.  The
\* blocks of the top level are Section, Comment, BlankLines or
\* InvalidSource; the children of a Section are Group, Suffixes, BlankLines
\* or InvalidSource; those of a Group are Suffixes, BlankLines or
\* InvalidSource; those of a Suffixes are Comment or Suffix.  Stated of the
\* blocks of a top-level parser, and of the blocks a section parser gets
\* from parseSuffixBlock, whose Suffixes node takes for its children the
\* blocks the functions called by its loop put in its frame.
C23_TreeShape ==
    /\ frame.kind = "toplevel" => WellShaped("File", p.blocks)
    /\ frame.kind = "suffixes" => WellShaped("Section", SuffixesBuilt.blocks)

\* The number of blank lines that lines starts with.
BlankRun(lines) ==
    IF \A i \in 1..Len(lines) : isEmpty(lines[i]) THEN Len(lines)
    ELSE (CHOOSE i \in 1..Len(lines) :
              /\ ~isEmpty(lines[i])
              /\ \A j \in 1..(i - 1) : isEmpty(lines[j])) - 1

\* parseWhitespace took the longest run of blank lines off the front, and
\* emitted one BlankLines block covering it if and only if it is not empty.
C24_BlankRunConsumed ==
    call.fn = "parseWhitespace" =>
        LET n == BlankRun(call.pre.lines)
        IN /\ Src(p) = takeN(Src(call.pre), n).rest
           /\ p.errs = call.pre.errs
           /\ p.blocks = IF n = 0 THEN call.pre.blocks
                          ELSE Append(call.pre.blocks,
                                      BlankLines(takeN(Src(call.pre), n).taken))

\* C24: parseWhitespace consumes the longest run of blank lines at the
\* front, emits one BlankLines block for it if and only if the run is not
\* empty, and returns true exactly when input is left, so that a loop body
\* finds a non-blank first line and the loop stops on an empty range.
C24_ParseWhitespace ==
    /\ C24_BlankRunConsumed
    /\ call.fn = "parseWhitespace" =>
           /\ call.ret = ~empty(Src(p))
           /\ call.ret => ~isEmpty(Text(first(Src(p))))

\* The range right after sub in the range s that sub was taken from.
After(s, sub) == takeN(s, Len(sub.lines)).rest

\* The parser went from parent into the frame of a construct over sub:
\* the range is sub, nothing is collected yet, and the parent is kept, its
\* range starting right after sub and its blocks followed by kept (the
\* node of a group, which parseGroup adds on the way in).
Entered(q, parent, sub, kept) ==
    /\ Src(q) = sub /\ q.blocks = <<>>
    /\ Len(q.stack) = Len(parent.stack) + 1
    /\ SubSeq(q.stack, 1, Len(parent.stack)) = parent.stack
    /\ LET top == q.stack[Len(q.stack)]
       IN /\ top.blocks = parent.blocks \o kept
          /\ Source(top.lines, top.lineOffset) = After(Src(parent), sub)

\* The parser q is back in parent after a construct of kind over sub: the
\* range starts right after sub, and the blocks are those parent had and
\* then one node for the construct, over sub, with children as its blocks.
Left(q, parent, kind, sub, children) ==
    /\ Src(q) = After(Src(parent), sub)
    /\ q.stack = parent.stack
    /\ Len(q.blocks) = Len(parent.blocks) + 1
    /\ SubSeq(q.blocks, 1, Len(parent.blocks)) = parent.blocks
    /\ LET node == q.blocks[Len(q.blocks)]
       IN node.kind = kind /\ node.src = sub /\ node.blocks = children

\* The Source of the group parseGroup builds from q.
GroupRange(q) ==
    takeUntil(Src(q), [l \in STRING |-> isPotentialEndOfGroup(l)]).taken

\* C25: entering a suffix block or a group gives a frame over the lines of
\* the construct with nothing collected; leaving it gives the parent back
\* with its range starting at the first line after the construct and its
\* blocks followed by exactly one node for the construct, whose children are
\* exactly the blocks collected in the frame.  Stated of each call of
\* parseSuffixBlock and of parseGroup: of the parser the function has when
\* it reaches its loop, and of the parser it leaves, whether the loop
\* returned or panicked.
C25_FrameEffect ==
    /\ call.fn = "parseSuffixBlock" =>
           /\ Entered(suffixBlockEnter(call.pre), call.pre,
                      suffixesOf(call.pre), <<>>)
           /\ Left(p, call.pre, "Suffixes", suffixesOf(call.pre),
                   suffixBlockLoop(suffixBlockEnter(call.pre)).blocks)
    /\ (call.fn = "parseGroup" /\ groupEnter(call.pre).panic = "") =>
           /\ Entered(groupEnter(call.pre), call.pre, GroupRange(call.pre),
                      <<Group(GroupRange(call.pre),
                              groupOf(call.pre).name, <<>>)>>)
           /\ Left(p, call.pre, "Group", GroupRange(call.pre),
                   groupLoop(groupEnter(call.pre), frame.section,
                             groupOf(call.pre)).blocks)

\* parseSuffixBlock has returned to a parser that had a block already and
\* has lines left after the suffix block.
C25_Witness ==
    /\ call.fn = "parseSuffixBlock" /\ p.panic = ""
    /\ Len(call.pre.blocks) > 0 /\ ~empty(Src(p))
    /\ Len(p.blocks) = Len(call.pre.blocks) + 1
    /\ p.blocks[Len(p.blocks)].kind = "Suffixes"
    /\ Len(p.blocks[Len(p.blocks)].src.lines) > 0

GroupDiagnostics == {"UnclosedGroupError", "NestedGroupError", "MismatchedGroupError"}

\* The errors q has and parent had not.
NewErrs(parent, q) == SubSeq(q.errs, Len(parent.errs) + 1, Len(q.errs))

\* The lines of the group parseGroup builds from parent hold a group end
\* marker.
Closed(parent) ==
    \E i \in 1..Len(GroupRange(parent).lines) :
        isPotentialEndOfGroup(GroupRange(parent).lines[i])

\* The places, after its first line, of the group start markers among the
\* lines of the group parseGroup builds from parent.
NestedStarts(parent) ==
    {i \in 2..Len(GroupRange(parent).lines) :
        isStartOfGroup(GroupRange(parent).lines[i])}

\* What the claim says of parseGroup, called on parent and returning q.
GroupOutcome(parent, q) ==
    LET node == q.blocks[Len(q.blocks)]
        new == NewErrs(parent, q)
    IN /\ Len(q.blocks) = Len(parent.blocks) + 1
       /\ node.kind = "Group" /\ node.src = GroupRange(parent)
       /\ ~Closed(parent) =>
              /\ empty(Src(q))
              /\ Cardinality({j \in 1..Len(new) :
                                 new[j].kind = "UnclosedGroupError"}) = 1
       /\ \A i \in NestedStarts(parent) :
              /\ \E j \in 1..Len(new) :
                     /\ new[j].kind = "NestedGroupError"
                     /\ new[j].src = slice(GroupRange(parent), i - 1, i)
              /\ \E k \in 1..Len(node.blocks) :
                     node.blocks[k] = InvalidSource(slice(GroupRange(parent), i - 1, i))
       /\ (Closed(parent) /\ NestedStarts(parent) = {}) =>
              \A j \in 1..Len(new) : new[j].kind \notin GroupDiagnostics

\* C26: a group start marker with no group end marker before the end of the
\* section body yields a Group covering the rest of the body and exactly
\* one UnclosedGroupError; a group start marker met while a group is open
\* yields a NestedGroupError and invalid text inside the open group; a
\* properly closed group with no nested marker yields one Group and no
\* group diagnostic.  Stated of each call of parseGroup.
C26_GroupParsing ==
    (call.fn = "parseGroup" /\ p.panic = "") => GroupOutcome(call.pre, p)

\* The last call took lines off the unconsumed range.
TakeCall == call.fn \in {"takeN", "takeWhile", "takeWhileNot"}

\* The range returned by the last take, and the range left behind.
Returned == SourceOf(p.heap, p.held[Len(p.held)])

Remaining == SourceOf(p.heap, p.rem)

\* Whether the predicate of the last call holds of line l.
PredHolds(l) == IF call.fn = "takeWhile" THEN l = call.line ELSE l # call.line

\* C27: takeN, takeWhile and takeWhileNot take a prefix and conserve the
\* range.  For a range with offset k and lines L the range returned has
\* offset k, the range left has offset k plus the number of lines taken,
\* returned ++ remaining = L and the end offset is unchanged; takeWhile
\* returns the longest prefix whose lines all satisfy the predicate (and
\* takeWhileNot the longest whose lines all fail it), takeN the first n.
C27_TakeConserves ==
    TakeCall =>
        LET s == SourceOf(call.pre.heap, call.pre.rem)
        IN IF call.fn = "takeN" /\ call.n > Len(s.lines)
           THEN p.panic # ""
           ELSE /\ p.panic = ""
                /\ Len(p.held) = Len(call.pre.held) + 1
                /\ Returned.lineOffset = s.lineOffset
                /\ Remaining.lineOffset = s.lineOffset + Len(Returned.lines)
                /\ Returned.lines \o Remaining.lines = s.lines
                /\ Remaining.lineOffset + Len(Remaining.lines)
                       = s.lineOffset + Len(s.lines)
                /\ call.fn = "takeN" => Len(Returned.lines) = call.n
                /\ call.fn # "takeN" =>
                       /\ \A i \in 1..Len(Returned.lines) :
                              PredHolds(Returned.lines[i])
                       /\ Len(Remaining.lines) > 0 =>
                              ~PredHolds(Remaining.lines[1])

\* takeWhile has taken some lines of a range that did not start the buffer
\* and has left some.
C27_Witness ==
    /\ call.fn = "takeWhile" /\ p.panic = ""
    /\ call.pre.rem.lineOffset > 0
    /\ Len(Returned.lines) > 0 /\ Len(Remaining.lines) > 0

\* line is a well-formed END marker naming the section that is open.
ClosesOpenSection(line) ==
    /\ isPotentialSectionMarker(line)
    /\ parseSectionMarker(line).kind = "END"
    /\ parseSectionMarker(line).name = frame.section.name
    /\ ~parseSectionMarker(line).missingTerminator

\* C28: the "unreachable" panic of parseRogueSection is never reached.  No
\* call ends in that panic, and no line of the range that the body of a
\* section, or a group in it, is parsed from (the lines their loops have to
\* send to parseRogueSection) is a well-formed END marker that names the
\* open section.
C28_UnreachableNotReached ==
    /\ p.panic # "unreachable"
    /\ frame.kind = "section" =>
           \A i \in 1..Len(p.lines) : ~ClosesOpenSection(p.lines[i])

\* The body, a suffix block, of a section that its END marker follows has
\* been used up without a panic.
C28_Witness ==
    /\ frame.kind = "section" /\ call.fn = "parseSuffixBlock"
    /\ p.panic = "" /\ empty(Src(p))
    /\ Len(input) > 2 /\ ClosesOpenSection(input[Len(input)])

ExceptionDiagnostics ==
    {"ExceptionAndWildcardSuffixError", "ExceptionNotDirectlyFollowingBaseError",
     "InvalidExceptionError", "DuplicateExceptionError"}

\* The last call ran parseSuffix on an exception line and reported one of
\* the exception diagnostics.
ExceptionRejected ==
    /\ call.fn = "parseSuffix" /\ HasPrefix(Text(CalledOn), "!")
    /\ p.panic = ""
    /\ Len(p.errs) = Len(call.pre.errs) + 1
    /\ p.errs[Len(p.errs)].kind \in ExceptionDiagnostics

\* C29: a rejected exception line leaves the base untouched.  After any of
\* the four exception diagnostics every block emitted before the line, the
\* Suffix before it among them, has the labels, the Wildcard flag, the
\* Exceptions and the source range it had, and the line is emitted as one
\* InvalidSource block covering exactly that line.
C29_BaseUntouched ==
    ExceptionRejected =>
        /\ Len(p.blocks) = Len(call.pre.blocks) + 1
        /\ \A i \in 1..Len(call.pre.blocks) : p.blocks[i] = call.pre.blocks[i]
        /\ p.blocks[Len(p.blocks)] = InvalidSource(CalledOn)
        /\ CalledOn.lines = <<call.pre.lines[1]>>
        /\ CalledOn.lineOffset = call.pre.lineOffset
        /\ Src(p) = takeOne(Src(call.pre)).rest

\* a.b, !c.a.b, then a line that is rejected with the Suffix as base: the
\* Suffix still covers its two lines and holds its one exception.
C29_Witness ==
    /\ ExceptionRejected
    /\ p.errs[Len(p.errs)].kind \in {"InvalidExceptionError", "DuplicateExceptionError"}
    /\ Len(p.blocks) = 2 /\ p.blocks[1].kind = "Suffix"
    /\ p.blocks[1].src = Source(<<"a.b", "!c.a.b">>, 1)
    /\ p.blocks[1].exceptions = <<<<"c", "a", "b">>>>
    /\ p.blocks[2].src.lineOffset = 3

====
